---- MODULE Spec2Model ----
(***************************************************************************)
(* A model of the semantic middle of the Shiika compiler: the name         *)
(* resolver and the indexing pass of the class dictionary                  *)
(* (lib/skc_ast2hir/src/class_dict/indexing.rs), the context stack of the  *)
(* HIR builder (src/hir/hir_maker.rs, convert_exprs/block.rs) and the      *)
(* lowering of match expressions (lib/skc_ast2hir/src/pattern_match.rs).   *)
(*                                                                         *)
(* Names.  A class fullname "A::B" is the sequence <<"A","B">> of its      *)
(* segments (segments are identifiers and never contain "::", so joining   *)
(* with "::" is one-to-one on sequences).  The metaclass name "Meta:A::B"  *)
(* is the same sequence with the marker segment "Meta:" in front.          *)
(***************************************************************************)
EXTENDS Integers, Sequences, FiniteSets, TLC

VARIABLES
  rt_query,     \* inputs of the last resolver call
  rt_result,    \* its result
  sk_types,     \* ClassDict.sk_types: type fullname -> SkType
  idx_phase,    \* "indexing", "failed" (index_program returned Err), "panicked"
  last_call,    \* the last call index_program made and what it did
  indexed,      \* the toplevel definitions indexed with success so far
  n_calls,      \* the number of toplevel definitions index_program has visited
  ctx_stack,    \* HirMaker.ctx_stack: the frames of the HIR builder
  calls,        \* the lowering operations in progress, outermost first
  hir_status,   \* "lowering", "error" (an Err is on its way up), "failed",
                \* "done", "extracted"
  returned,     \* the last lowering operation that returned, with the
                \* context stack before its call and after its return
  match_input,  \* the match expression convert_match_expr is given
  match_result, \* what convert_match_expr returned
  gensym_ct,    \* HirMaker.gensym_ct
  lvar_names,   \* the names generate_lvar_name has returned so far, in order
  const_inits,  \* HirMaker.const_inits: the constants registered so far
  pat_query,    \* the value and the pattern convert_match is given
  pat_result,   \* what convert_match returned
  tc_query,     \* the inputs of the last call of a type check
  tc_result,    \* what the check returned
  span_query,   \* the inputs of the last call of LocationSpan::new or merge
  span_result,  \* what the call returned and how
  gen_query,    \* the const_inits of the two packages given to the generator
  init_fns,     \* the init_constants functions generated so far
  call_stack,   \* the generated functions running, outermost first
  init_calls    \* the constant initializers run so far, in order

vars == <<rt_query, rt_result, sk_types, idx_phase, last_call, indexed, n_calls,
          ctx_stack, calls, hir_status, returned,
          match_input, match_result, gensym_ct, lvar_names, const_inits,
          pat_query, pat_result, tc_query, tc_result,
          span_query, span_result, gen_query, init_fns, call_stack, init_calls>>
match_vars == <<match_input, match_result, gensym_ct, lvar_names>>
pattern_vars == <<pat_query, pat_result>>
check_vars == <<tc_query, tc_result>>
span_vars == <<span_query, span_result>>
codegen_vars == <<gen_query, init_fns, call_stack, init_calls>>
resolve_vars == <<rt_query, rt_result>>
index_vars == <<idx_phase, last_call, indexed, n_calls>>
hir_vars == <<ctx_stack, calls, hir_status, returned, const_inits>>

\* Bounds
MaxNs == 2      \* depth of the namespace of a resolver query
MaxDefs == 3    \* toplevel definitions the indexing pass visits
MaxDepth == 5   \* lowering operations nested in one another
MaxClauses == 3 \* user clauses of a match expression

----------------------------------------------------------------------------
(* Type universe                                                           *)

NoName == <<>>

\* ty::nonmeta(names, args)
nonmeta(names, args) ==
  [tag |-> "raw", name |-> names, args |-> args, meta |-> FALSE,
   kind |-> "-", idx |-> 0]

\* ty::raw(name)
raw(s) == nonmeta(<<s>>, <<>>)

\* ty::typaram_ref(name, kind, idx).into_term_ty()
typaram_ref(s, kind, idx) ==
  [tag |-> "para", name |-> <<s>>, args |-> <<>>, meta |-> FALSE,
   kind |-> kind, idx |-> idx]

NoTy == [tag |-> "none", name |-> NoName, args |-> <<>>, meta |-> FALSE,
         kind |-> "-", idx |-> 0]

\* An UnresolvedTypeName: the segments and the type arguments as written
tyname(names, args) == [names |-> names, args |-> args]

\* class_typarams.iter().position(|t| *s == t.name): the first index
\* (0-based) of s in the list of type parameter names, or -1
position(typarams, s) ==
  IF \E i \in 1..Len(typarams) : typarams[i] = s
  THEN (CHOOSE i \in 1..Len(typarams) :
          /\ typarams[i] = s
          /\ \A j \in 1..(i-1) : typarams[j] # s) - 1
  ELSE -1

----------------------------------------------------------------------------
(* Name resolution                                                         *)

\* namespace.head(n)
head(ns, n) == SubSeq(ns, 1, n)

RECURSIVE resolve_simple_from(_, _, _, _)
resolve_simple_from(ci, ns, names, k) ==
  LET n == Len(ns)
      resolved == head(ns, n - k) \o names
  IN  IF k > n
      THEN [err |-> "NameError", resolved |-> NoName, typarams |-> <<>>]
      ELSE IF resolved \in DOMAIN ci
           THEN [err |-> "none", resolved |-> resolved, typarams |-> ci[resolved]]
           ELSE resolve_simple_from(ci, ns, names, k + 1)

\* the loop of _resolve_simple_typename run from the outermost prefix inwards
RECURSIVE resolve_simple_outer_first(_, _, _, _)
resolve_simple_outer_first(ci, ns, names, k) ==
  LET n == Len(ns)
      resolved == head(ns, k) \o names
  IN  IF k > n
      THEN [err |-> "NameError", resolved |-> NoName, typarams |-> <<>>]
      ELSE IF resolved \in DOMAIN ci
           THEN [err |-> "none", resolved |-> resolved, typarams |-> ci[resolved]]
           ELSE resolve_simple_outer_first(ci, ns, names, k + 1)

_resolve_simple_typename_outer_first(ci, ns, names) ==
  resolve_simple_outer_first(ci, ns, names, 0)

\* ClassDict::_resolve_simple_typename
_resolve_simple_typename(ci, ns, names) ==
  resolve_simple_from(ci, ns, names, 0)

\* the first error among the results rs, or "none"
first_err(rs) ==
  IF \E i \in 1..Len(rs) : rs[i].err # "none"
  THEN rs[CHOOSE i \in 1..Len(rs) :
            /\ rs[i].err # "none"
            /\ \A j \in 1..(i-1) : rs[j].err = "none"].err
  ELSE "none"

\* ClassDict::_resolve_typename
RECURSIVE _resolve_typename(_, _, _, _, _)
_resolve_typename(ci, ns, class_typarams, method_typarams, name) ==
  LET s == name.names[1]
      is_simple == Len(name.args) = 0 /\ Len(name.names) = 1
      cidx == position(class_typarams, s)
      midx == position(method_typarams, s)
  IN  IF is_simple /\ cidx >= 0
      THEN [err |-> "none", ty |-> typaram_ref(s, "Class", cidx)]
      ELSE IF is_simple /\ midx >= 0
      THEN [err |-> "none", ty |-> typaram_ref(s, "Method", midx)]
      ELSE
        LET tyargs == [i \in 1..Len(name.args) |->
                         _resolve_typename(ci, ns, class_typarams,
                                           method_typarams, name.args[i])]
            base == _resolve_simple_typename(ci, ns, name.names)
        IN  IF first_err(tyargs) # "none"
            THEN [err |-> first_err(tyargs), ty |-> NoTy]
            ELSE IF base.err # "none"
            THEN [err |-> base.err, ty |-> NoTy]
            ELSE IF Len(name.args) # Len(base.typarams)
            THEN [err |-> "TypeError", ty |-> NoTy]
            ELSE [err |-> "none",
                  ty |-> nonmeta(base.resolved,
                                 [i \in 1..Len(name.args) |-> tyargs[i].ty])]

----------------------------------------------------------------------------
(* Class dictionary: data                                                  *)

\* ClassFullname::meta_name: "Meta:" in front
meta_name(fullname) == <<"Meta:">> \o fullname

\* Erasure::nonmeta / Erasure::meta
Erasure(name, is_meta) == [name |-> name, is_meta |-> is_meta]

\* SkTypeBase::fullname_: the key a type is registered under comes from its
\* erasure
fullname_(erasure) ==
  IF erasure.is_meta THEN meta_name(erasure.name) ELSE erasure.name

\* TermTy::erasure().to_type_fullname() of a literal type
erasure_fullname(ty) == IF ty.meta THEN meta_name(ty.name) ELSE ty.name

EmptyMap == [x \in {} |-> x]

\* HashMap::insert
insert(m, k, v) == [x \in DOMAIN m \cup {k} |-> IF x = k THEN v ELSE m[x]]

\* HashMap::extend: the entries of m2 replace those of m1
extend(m1, m2) ==
  [x \in DOMAIN m1 \cup DOMAIN m2 |-> IF x \in DOMAIN m2 THEN m2[x] ELSE m1[x]]

\* Superclass::simple(name)
Superclass_simple(s) == raw(s)

\* Superclass::default(): the superclass of a class that names none
Superclass_default == Superclass_simple("Object")

SkClass(erasure, typarams, method_sigs, superclass, ivars, is_final, const_is_obj) ==
  [kind |-> "class", erasure |-> erasure, typarams |-> typarams,
   method_sigs |-> method_sigs, foreign |-> FALSE, superclass |-> superclass,
   ivars |-> ivars, is_final |-> is_final, const_is_obj |-> const_is_obj,
   requirements |-> <<>>]

SkModule(erasure, typarams, method_sigs, requirements) ==
  [kind |-> "module", erasure |-> erasure, typarams |-> typarams,
   method_sigs |-> method_sigs, foreign |-> FALSE, superclass |-> NoTy,
   ivars |-> EmptyMap, is_final |-> "none", const_is_obj |-> FALSE,
   requirements |-> requirements]

\* ClassDict::add_type
add_type(d, sk_type) == insert(d, fullname_(sk_type.erasure), sk_type)

\* ClassDict::add_method
add_method(d, clsname, sig) ==
  [d EXCEPT ![clsname].method_sigs = insert(@, sig.fullname.first_name, sig)]

\* find_type that takes a type the dictionary does not hold for a class
find_type_or_class(d, fullname) ==
  IF fullname \in DOMAIN d THEN d[fullname]
  ELSE [kind |-> "class", is_final |-> "false"]

\* ClassDict::find_type
find_type(d, fullname) == IF fullname \in DOMAIN d THEN d[fullname] ELSE
  [kind |-> "none"]

method_fullname(type_name, first_name) ==
  [type_name |-> type_name, first_name |-> first_name]

MethodSignature(fullname, ret_ty, params, typarams) ==
  [fullname |-> fullname, ret_ty |-> ret_ty, params |-> params,
   typarams |-> typarams]

\* signature::signature_of_new
signature_of_new(metaclass_fullname, initialize_params, instance_ty) ==
  MethodSignature(method_fullname(metaclass_fullname, "new"), instance_ty,
                  initialize_params, <<>>)

\* signature::signature_of_initialize
signature_of_initialize(class_fullname, params) ==
  MethodSignature(method_fullname(class_fullname, "initialize"), raw("Void"),
                  params, <<>>)

\* the class-bound references to the type parameters, in order
typaram_refs(typarams) ==
  [i \in 1..Len(typarams) |-> typaram_ref(typarams[i], "Class", i - 1)]

\* ty::return_type_of_new: the class applied to its own type parameters
return_type_of_new(fullname, typarams) ==
  nonmeta(fullname, typaram_refs(typarams))

\* TermTy::substitute: replace type-parameter references by index and kind
RECURSIVE substitute(_, _, _)
substitute(ty, class_tyargs, method_tyargs) ==
  IF ty.tag = "para"
  THEN IF ty.kind = "Class" /\ ty.idx < Len(class_tyargs)
       THEN class_tyargs[ty.idx + 1]
       ELSE IF ty.kind = "Method" /\ ty.idx < Len(method_tyargs)
       THEN method_tyargs[ty.idx + 1]
       ELSE ty
  ELSE [ty EXCEPT !.args = [i \in 1..Len(ty.args) |->
                              substitute(ty.args[i], class_tyargs, method_tyargs)]]

\* MethodParam::substitute over a parameter list
substitute_params(params, class_tyargs, method_tyargs) ==
  [i \in 1..Len(params) |->
     [name |-> params[i].name,
      ty |-> substitute(params[i].ty, class_tyargs, method_tyargs)]]

----------------------------------------------------------------------------
(* The AST the indexing pass reads                                         *)

NoRet == tyname(<<>>, <<>>)

Param(name, typ) == [name |-> name, typ |-> typ]

AstMethodSignature(name, typarams, params, ret_typ) ==
  [name |-> name, typarams |-> typarams, params |-> params, ret_typ |-> ret_typ]

NoSig == AstMethodSignature("", <<>>, <<>>, NoRet)

Definition(kind, name, typarams, supers, defs, cases, sig) ==
  [kind |-> kind, name |-> name, typarams |-> typarams, supers |-> supers,
   defs |-> defs, cases |-> cases, sig |-> sig]

ClassDefinition(name, typarams, supers, defs) ==
  Definition("class", name, typarams, supers, defs, <<>>, NoSig)
ModuleDefinition(name, typarams, defs) ==
  Definition("module", name, typarams, <<>>, defs, <<>>, NoSig)
EnumDefinition(name, typarams, cases, defs) ==
  Definition("enum", name, typarams, <<>>, defs, cases, NoSig)
ConstDefinition(name) ==
  Definition("const", name, <<>>, <<>>, <<>>, <<>>, NoSig)
InstanceMethodDefinition(sig) ==
  Definition("imethod", sig.name, <<>>, <<>>, <<>>, <<>>, sig)
ClassMethodDefinition(sig) ==
  Definition("cmethod", sig.name, <<>>, <<>>, <<>>, <<>>, sig)
MethodRequirementDefinition(sig) ==
  Definition("requirement", sig.name, <<>>, <<>>, <<>>, <<>>, sig)

EnumCase(name, params) == [name |-> name, params |-> params]

\* Definition::is_initializer
is_initializer(def) == def.kind = "imethod" /\ def.sig.name = "initialize"

----------------------------------------------------------------------------
(* Class dictionary: the indexing pass                                     *)

\* ClassDict::lookup_method: walk the superclass chain of the receiver and
\* return the first signature of that name with the class that owns it,
\* specialized by the type arguments of the receiver
RECURSIVE lookup_method_from(_, _, _, _, _)
lookup_method_from(d, fullname, tyargs, first_name, fuel) ==
  IF fuel = 0 \/ fullname \notin DOMAIN d
  THEN [found |-> FALSE]
  ELSE LET t == d[fullname]
       IN  IF first_name \in DOMAIN t.method_sigs
           THEN LET sig == t.method_sigs[first_name]
                IN  [found |-> TRUE, owner |-> fullname,
                     sig |-> [sig EXCEPT
                                !.ret_ty = substitute(@, tyargs, <<>>),
                                !.params = substitute_params(@, tyargs, <<>>)]]
           ELSE IF t.superclass = NoTy
           THEN [found |-> FALSE]
           ELSE lookup_method_from(
                  d, erasure_fullname(t.superclass),
                  [i \in 1..Len(t.superclass.args) |->
                     substitute(t.superclass.args[i], tyargs, <<>>)],
                  first_name, fuel - 1)

lookup_method(d, receiver_ty, first_name) ==
  lookup_method_from(d, erasure_fullname(receiver_ty), receiver_ty.args,
                     first_name, Cardinality(DOMAIN d) + 1)

\* specialized_initialize: #initialize of the superclass with the type
\* arguments of the superclass put in
specialized_initialize(sig, superclass) ==
  [sig EXCEPT !.ret_ty = substitute(@, superclass.args, <<>>),
              !.params = substitute_params(@, superclass.args, <<>>)]

\* ClassDict::convert_params
convert_params(ci, ns, ast_params, class_typarams, method_typarams) ==
  LET params_of(rs) ==
        IF first_err(rs) # "none"
        THEN [err |-> first_err(rs), params |-> <<>>]
        ELSE [err |-> "none",
              params |-> [i \in 1..Len(ast_params) |->
                            [name |-> ast_params[i].name, ty |-> rs[i].ty]]]
  IN  params_of([i \in 1..Len(ast_params) |->
                   _resolve_typename(ci, ns, class_typarams, method_typarams,
                                     ast_params[i].typ)])

\* create_signature with no class type parameter in scope
create_signature_method_scope_only(ci, ns, class_fullname, sig, class_typarams) ==
  LET method_typarams == sig.typarams
      signature(ret, ps) ==
        IF ret.err # "none" THEN [err |-> ret.err, sig |-> NoSig]
        ELSE IF ps.err # "none" THEN [err |-> ps.err, sig |-> NoSig]
        ELSE [err |-> "none",
              sig |-> MethodSignature(method_fullname(class_fullname, sig.name),
                                      ret.ty, ps.params, method_typarams)]
  IN  signature(IF sig.ret_typ # NoRet
                THEN _resolve_typename(ci, ns, <<>>, method_typarams,
                                       sig.ret_typ)
                ELSE [err |-> "none", ty |-> raw("Void")],
                convert_params(ci, ns, sig.params, <<>>, method_typarams))

\* ClassDict::create_signature
create_signature(ci, ns, class_fullname, sig, class_typarams) ==
  LET method_typarams == sig.typarams
      signature(ret, ps) ==
        IF ret.err # "none" THEN [err |-> ret.err, sig |-> NoSig]
        ELSE IF ps.err # "none" THEN [err |-> ps.err, sig |-> NoSig]
        ELSE [err |-> "none",
              sig |-> MethodSignature(method_fullname(class_fullname, sig.name),
                                      ret.ty, ps.params, method_typarams)]
  IN  signature(IF sig.ret_typ # NoRet
                THEN _resolve_typename(ci, ns, class_typarams, method_typarams,
                                       sig.ret_typ)
                ELSE [err |-> "none", ty |-> raw("Void")],
                convert_params(ci, ns, sig.params, class_typarams,
                               method_typarams))

SupersErr(err, msg) ==
  [err |-> err, msg |-> msg, superclass |-> NoTy, includes |-> <<>>]

\* the loop of _resolve_supers from the i-th name on
RECURSIVE resolve_supers_from(_, _, _, _, _, _, _, _)
resolve_supers_from(ci, d, ns, class_typarams, supers, i, superclass, modules) ==
  IF i > Len(supers)
  THEN [err |-> "none", msg |-> "",
        superclass |-> IF superclass = NoTy THEN Superclass_default
                       ELSE superclass,
        includes |-> modules]
  ELSE
    LET check(r, t) ==
          IF r.err # "none" THEN SupersErr(r.err, "unresolved")
          ELSE IF t.kind = "class"
          THEN IF modules # <<>>
               THEN SupersErr("ProgramError", "superclass must be the first")
               ELSE IF superclass # NoTy
               THEN SupersErr("ProgramError", "only one superclass is allowed")
               ELSE IF t.is_final = "none"
               THEN SupersErr("panic", "is_final.unwrap()")
               ELSE IF t.is_final = "true"
               THEN SupersErr("ProgramError", "inheriting is not allowed")
               ELSE resolve_supers_from(ci, d, ns, class_typarams, supers, i + 1, r.ty,
                    modules)
          ELSE IF t.kind = "module"
          THEN resolve_supers_from(ci, d, ns, class_typarams, supers, i + 1, superclass,
                  Append(modules, r.ty))
          ELSE SupersErr("ProgramError", "unknown class or module")
        found(r) == check(r, find_type(d, erasure_fullname(r.ty)))
    IN  found(_resolve_typename(ci, ns, class_typarams, <<>>, supers[i]))

\* _resolve_supers without the check of is_final
RECURSIVE resolve_supers_no_final(_, _, _, _, _, _, _, _)
resolve_supers_no_final(ci, d, ns, class_typarams, supers, i, superclass, modules) ==
  IF i > Len(supers)
  THEN [err |-> "none", msg |-> "",
        superclass |-> IF superclass = NoTy THEN Superclass_default
                       ELSE superclass,
        includes |-> modules]
  ELSE
    LET check(r, t) ==
          IF r.err # "none" THEN SupersErr(r.err, "unresolved")
          ELSE IF t.kind = "class"
          THEN IF modules # <<>>
               THEN SupersErr("ProgramError", "superclass must be the first")
               ELSE IF superclass # NoTy
               THEN SupersErr("ProgramError", "only one superclass is allowed")
               ELSE resolve_supers_no_final(ci, d, ns, class_typarams, supers, i + 1, r.ty,
                    modules)
          ELSE IF t.kind = "module"
          THEN resolve_supers_no_final(ci, d, ns, class_typarams, supers, i + 1, superclass,
                  Append(modules, r.ty))
          ELSE SupersErr("ProgramError", "unknown class or module")
        found(r) == check(r, find_type(d, erasure_fullname(r.ty)))
    IN  found(_resolve_typename(ci, ns, class_typarams, <<>>, supers[i]))

_resolve_supers_no_final_check(ci, d, ns, class_typarams, supers) ==
  resolve_supers_no_final(ci, d, ns, class_typarams, supers, 1, NoTy, <<>>)

\* _resolve_supers that keeps the last class named instead of rejecting a
\* second one, and takes a class after a module
RECURSIVE resolve_supers_last_wins(_, _, _, _, _, _, _, _)
resolve_supers_last_wins(ci, d, ns, class_typarams, supers, i, superclass, modules) ==
  IF i > Len(supers)
  THEN [err |-> "none", msg |-> "",
        superclass |-> IF superclass = NoTy THEN Superclass_default
                       ELSE superclass,
        includes |-> modules]
  ELSE
    LET check(r, t) ==
          IF r.err # "none" THEN SupersErr(r.err, "unresolved")
          ELSE IF t.kind = "class"
          THEN IF t.is_final = "none"
               THEN SupersErr("panic", "is_final.unwrap()")
               ELSE IF t.is_final = "true"
               THEN SupersErr("ProgramError", "inheriting is not allowed")
               ELSE resolve_supers_last_wins(ci, d, ns, class_typarams, supers, i + 1, r.ty,
                    modules)
          ELSE IF t.kind = "module"
          THEN resolve_supers_last_wins(ci, d, ns, class_typarams, supers, i + 1, superclass,
                  Append(modules, r.ty))
          ELSE SupersErr("ProgramError", "unknown class or module")
        found(r) == check(r, find_type(d, erasure_fullname(r.ty)))
    IN  found(_resolve_typename(ci, ns, class_typarams, <<>>, supers[i]))

_resolve_supers_last_wins(ci, d, ns, class_typarams, supers) ==
  resolve_supers_last_wins(ci, d, ns, class_typarams, supers, 1, NoTy, <<>>)

\* ClassDict::_resolve_supers
_resolve_supers(ci, d, ns, class_typarams, supers) ==
  resolve_supers_from(ci, d, ns, class_typarams, supers, 1, NoTy, <<>>)

\* ClassDict::_initializer_params
_initializer_params(ci, d, ns, typarams, superclass, defs) ==
  IF \E i \in 1..Len(defs) : is_initializer(defs[i])
  THEN LET i == CHOOSE i \in 1..Len(defs) :
                  /\ is_initializer(defs[i])
                  /\ \A j \in 1..(i-1) : ~is_initializer(defs[j])
       IN  convert_params(ci, ns, defs[i].sig.params, typarams, <<>>)
  ELSE LET params_of(found) ==
             IF ~found.found
             THEN [err |-> "panic", params |-> <<>>]
             ELSE [err |-> "none",
                   params |-> specialized_initialize(found.sig, superclass).params]
       IN  params_of(lookup_method(d, superclass, "initialize"))

NoMethodSig == MethodSignature(method_fullname(NoName, ""), NoTy, <<>>, <<>>)

\* add_new_class that registers the class without its metaclass
add_new_class_without_meta(d, fullname, typarams, superclass, new_sig, instance_methods, class_methods, is_final, const_is_obj) ==
  [err |-> "none",
   d |-> add_type(d, SkClass(Erasure(fullname, FALSE), typarams,
                             instance_methods, superclass, EmptyMap,
                             is_final, const_is_obj))]

\* ClassDict::add_new_class: register a class and its metaclass
add_new_class(d, fullname, typarams, superclass, new_sig, instance_methods, class_methods, is_final, const_is_obj) ==
  LET cm == IF new_sig # NoMethodSig
            THEN insert(class_methods, new_sig.fullname.first_name, new_sig)
            ELSE class_methods
      d1 == add_type(d, SkClass(Erasure(fullname, FALSE), typarams,
                                instance_methods, superclass, EmptyMap,
                                is_final, const_is_obj))
  IN  IF <<"Class">> \notin DOMAIN d1
      THEN [err |-> "panic", d |-> d1]
      ELSE [err |-> "none",
            d |-> add_type(d1, SkClass(Erasure(fullname, TRUE), typarams, cm,
                                       Superclass_simple("Class"),
                                       d1[<<"Class">>].ivars, "none", FALSE))]

\* ClassDict::add_new_module: register a module and its metaclass
add_new_module(d, fullname, typarams, instance_methods, class_methods, requirements) ==
  LET d1 == add_type(d, SkModule(Erasure(fullname, FALSE), typarams,
                                 instance_methods, requirements))
  IN  IF <<"Class">> \notin DOMAIN d1
      THEN [err |-> "panic", d |-> d1]
      ELSE [err |-> "none",
            d |-> add_type(d1, SkClass(Erasure(fullname, TRUE), typarams,
                                       class_methods,
                                       Superclass_simple("Class"),
                                       d1[<<"Class">>].ivars, "none", FALSE))]

\* ClassDict::define_ivars: set the instance variables of a class
define_ivars(d, fullname, ivars) ==
  [d EXCEPT ![fullname].ivars = extend(@, ivars)]

\* enum_case_superclass without the branch for a case without parameters
enum_case_superclass_of_typarams(enum_fullname, typarams, case) ==
  nonmeta(enum_fullname, typaram_refs(typarams))

\* enum_case_superclass
enum_case_superclass(enum_fullname, typarams, case) ==
  IF Len(case.params) = 0
  THEN nonmeta(enum_fullname, [i \in 1..Len(typarams) |-> raw("Never")])
  ELSE nonmeta(enum_fullname, typaram_refs(typarams))

\* enum_case_new_sig: the signatures of .new and #initialize of an enum case
enum_case_new_sig(ivar_list, typarams, fullname) ==
  LET params == [i \in 1..Len(ivar_list) |->
                   [name |-> ivar_list[i].name, ty |-> ivar_list[i].ty]]
      ret_ty == IF Len(ivar_list) = 0
                THEN nonmeta(fullname, <<>>)
                ELSE nonmeta(fullname, typaram_refs(typarams))
  IN  [new |-> signature_of_new(meta_name(fullname), params, ret_ty),
       initialize |-> signature_of_initialize(fullname, params)]

\* enum_case_getters
enum_case_getters(case_fullname, ivars) ==
  [n \in {ivars[i].name : i \in 1..Len(ivars)} |->
     LET i == CHOOSE i \in 1..Len(ivars) :
                 /\ ivars[i].name = n
                 /\ \A j \in (i+1)..Len(ivars) : ivars[j].name # n
     IN  MethodSignature(method_fullname(case_fullname, ivars[i].name),
                         ivars[i].ty, <<>>, <<>>)]

\* ClassDict::_enum_case_ivars
_enum_case_ivars(ci, ns, typarams, case) ==
  LET ivars_of(rs) ==
        IF first_err(rs) # "none"
        THEN [err |-> first_err(rs), ivars |-> <<>>]
        ELSE [err |-> "none",
              ivars |-> [i \in 1..Len(case.params) |->
                           [idx |-> i - 1, name |-> case.params[i].name,
                            ty |-> rs[i].ty, readonly |-> TRUE]]]
  IN  ivars_of([i \in 1..Len(case.params) |->
                  _resolve_typename(ci, ns, typarams, <<>>,
                                    case.params[i].typ)])

\* ClassDict::index_enum_case
index_enum_case(ci, d, ns, enum_fullname, typarams, case) ==
  LET fullname == enum_fullname \o <<case.name>>
      superclass == enum_case_superclass(enum_fullname, typarams, case)
      case_typarams == IF Len(case.params) = 0 THEN <<>> ELSE typarams
      ivar_map(ivars) ==
        [n \in {ivars[i].name : i \in 1..Len(ivars)} |->
           ivars[CHOOSE i \in 1..Len(ivars) :
                   /\ ivars[i].name = n
                   /\ \A j \in (i+1)..Len(ivars) : ivars[j].name # n]]
      with_ivars(added, ivars) ==
        IF added.err # "none" THEN added
        ELSE [err |-> "none",
              d |-> define_ivars(added.d, fullname, ivar_map(ivars))]
      register(ivars, sigs) ==
        with_ivars(add_new_class(d, fullname, case_typarams, superclass,
                                 sigs.new,
                                 insert(enum_case_getters(fullname, ivars),
                                        "initialize", sigs.initialize),
                                 EmptyMap, "true", Len(case.params) = 0),
                   ivars)
      index(iv) ==
        IF iv.err # "none" THEN [err |-> iv.err, d |-> d]
        ELSE register(iv.ivars, enum_case_new_sig(iv.ivars, typarams, fullname))
  IN  index(_enum_case_ivars(ci, ns, typarams, case))

\* the loop over the cases in index_enum
RECURSIVE index_enum_cases(_, _, _, _, _, _, _)
index_enum_cases(ci, d, ns, enum_fullname, typarams, cases, i) ==
  IF i > Len(cases) THEN [err |-> "none", d |-> d]
  ELSE LET rest(r) ==
             IF r.err # "none" THEN r
             ELSE index_enum_cases(ci, r.d, ns, enum_fullname, typarams,
                                   cases, i + 1)
       IN  rest(index_enum_case(ci, d, ns, enum_fullname, typarams, cases[i]))

RECURSIVE index_class(_, _, _, _)
RECURSIVE index_module(_, _, _, _)
RECURSIVE index_enum(_, _, _, _)
RECURSIVE _index_inner_defs(_, _, _, _, _, _, _, _, _)

InnerErr(err, d) ==
  [err |-> err, d |-> d, instance_methods |-> EmptyMap,
   class_methods |-> EmptyMap, requirements |-> <<>>]

\* ClassDict::_index_inner_defs, from the i-th definition on; acc holds the
\* signatures collected so far
_index_inner_defs(ci, d, ns, fullname, typarams, defs, is_module, i, acc) ==
  IF i > Len(defs)
  THEN [err |-> "none", d |-> d, instance_methods |-> acc.instance_methods,
        class_methods |-> acc.class_methods, requirements |-> acc.requirements]
  ELSE
    LET def == defs[i]
        next(d2, acc2) == _index_inner_defs(ci, d2, ns, fullname, typarams,
                                            defs, is_module, i + 1, acc2)
        \* the signature r of a method is recorded in acc
        record(r, acc2) ==
          IF r.err # "none" THEN InnerErr(r.err, d) ELSE next(d, acc2)
        \* r is the outcome of indexing an inner type
        indexed_inner(r) ==
          IF r.err # "none" THEN InnerErr(r.err, r.d) ELSE next(r.d, acc)
        imethod(r) ==
          record(r, [acc EXCEPT !.instance_methods =
                                   insert(@, def.sig.name, r.sig)])
        cmethod(r) ==
          record(r, [acc EXCEPT !.class_methods =
                                   insert(@, def.sig.name, r.sig)])
        requirement(r) ==
          record(r, [acc EXCEPT !.requirements = Append(@, r.sig)])
    IN  CASE def.kind = "imethod" ->
               imethod(create_signature(ci, ns, fullname, def.sig, typarams))
          [] def.kind = "cmethod" ->
               cmethod(create_signature(ci, ns, meta_name(fullname), def.sig,
                                        <<>>))
          [] def.kind = "const" -> next(d, acc)
          [] def.kind = "class" -> indexed_inner(index_class(ci, d, ns, def))
          [] def.kind = "module" -> indexed_inner(index_module(ci, d, ns, def))
          [] def.kind = "requirement" ->
               IF is_module
               THEN requirement(create_signature(ci, ns, fullname, def.sig,
                                                 typarams))
               ELSE InnerErr("SyntaxError", d)
          [] def.kind = "enum" -> indexed_inner(index_enum(ci, d, ns, def))

NoInner ==
  [instance_methods |-> EmptyMap, class_methods |-> EmptyMap,
   requirements |-> <<>>]

\* ClassDict::index_defs_in_class
index_defs_in_class(ci, d, ns, fullname, typarams, defs) ==
  _index_inner_defs(ci, d, ns, fullname, typarams, defs, FALSE, 1, NoInner)

\* ClassDict::index_defs_in_module
index_defs_in_module(ci, d, ns, fullname, typarams, defs) ==
  _index_inner_defs(ci, d, ns, fullname, typarams, defs, TRUE, 1, NoInner)

\* the merging arm with .new installed whatever the metaclass holds
merge_class_new_replaced(d, fullname, new_sig, instance_methods, class_methods) ==
  LET metaclass_fullname == meta_name(fullname)
      d1 == [d EXCEPT ![fullname].method_sigs = extend(@, instance_methods)]
  IN  IF metaclass_fullname \notin DOMAIN d1
      THEN [err |-> "panic", d |-> d1]
      ELSE
        LET d2 == [d1 EXCEPT ![metaclass_fullname].method_sigs =
                                 extend(@, class_methods)]
        IN  IF new_sig # NoMethodSig
            THEN [err |-> "none", d |-> add_method(d2, metaclass_fullname, new_sig)]
            ELSE [err |-> "none", d |-> d2]

\* the arm of index_class that merges into an existing class
merge_class(d, fullname, new_sig, instance_methods, class_methods) ==
  LET metaclass_fullname == meta_name(fullname)
      d1 == [d EXCEPT ![fullname].method_sigs = extend(@, instance_methods)]
  IN  IF metaclass_fullname \notin DOMAIN d1
      THEN [err |-> "panic", d |-> d1]
      ELSE
        LET d2 == [d1 EXCEPT ![metaclass_fullname].method_sigs =
                                 extend(@, class_methods)]
        IN  IF new_sig # NoMethodSig
               /\ "new" \notin DOMAIN d2[metaclass_fullname].method_sigs
            THEN [err |-> "none", d |-> add_method(d2, metaclass_fullname, new_sig)]
            ELSE [err |-> "none", d |-> d2]

\* ClassDict::index_class
index_class(ci, d, ns, def) ==
  LET fullname == ns \o <<def.name>>
      metaclass_fullname == meta_name(fullname)
      new_sig(ip) ==
        IF fullname = <<"Never">> THEN NoMethodSig
        ELSE signature_of_new(metaclass_fullname, ip.params,
                              return_type_of_new(fullname, def.typarams))
      register(superclass, sig, inner) ==
        IF inner.err # "none" THEN [err |-> inner.err, d |-> inner.d]
        ELSE IF fullname \in DOMAIN inner.d
        THEN merge_class(inner.d, fullname, sig, inner.instance_methods,
                         inner.class_methods)
        ELSE add_new_class(inner.d, fullname, def.typarams, superclass, sig,
                           inner.instance_methods, inner.class_methods,
                           "false", FALSE)
      with_params(superclass, ip) ==
        IF fullname # <<"Never">> /\ ip.err # "none"
        THEN [err |-> ip.err, d |-> d]
        ELSE register(superclass, new_sig(ip),
                      index_defs_in_class(ci, d, ns \o <<def.name>>, fullname,
                                          def.typarams, def.defs))
      with_supers(sup) ==
        IF sup.err # "none" THEN [err |-> sup.err, d |-> d]
        ELSE with_params(sup.superclass,
                         _initializer_params(ci, d, ns, def.typarams,
                                             sup.superclass, def.defs))
  IN  with_supers(_resolve_supers(ci, d, ns, def.typarams, def.supers))

\* ClassDict::index_module
index_module(ci, d, ns, def) ==
  LET fullname == ns \o <<def.name>>
      register(inner) ==
        IF inner.err # "none" THEN [err |-> inner.err, d |-> inner.d]
        ELSE IF fullname \in DOMAIN inner.d
        THEN [err |-> "panic", d |-> inner.d]      \* Some(_) => todo!()
        ELSE add_new_module(inner.d, fullname, def.typarams,
                            inner.instance_methods, inner.class_methods,
                            inner.requirements)
  IN  register(index_defs_in_module(ci, d, ns \o <<def.name>>, fullname,
                                    def.typarams, def.defs))

\* ClassDict::index_enum
index_enum(ci, d, ns, def) ==
  LET fullname == ns \o <<def.name>>
      with_cases(added) ==
        IF added.err # "none" THEN added
        ELSE index_enum_cases(ci, added.d, ns, fullname, def.typarams,
                              def.cases, 1)
      register(inner) ==
        IF inner.err # "none" THEN [err |-> inner.err, d |-> inner.d]
        ELSE with_cases(add_new_class(inner.d, fullname, def.typarams,
                                      Superclass_simple("Object"), NoMethodSig,
                                      inner.instance_methods,
                                      inner.class_methods, "true", FALSE))
  IN  register(index_defs_in_class(ci, d, ns \o <<def.name>>, fullname,
                                   def.typarams, def.defs))

----------------------------------------------------------------------------
(* The resolver called on its own                                          *)

TN(s) == tyname(<<s>>, <<>>)

NsSegs == {"A", "B"}
Namespaces == UNION {[1..n -> NsSegs] : n \in 0..MaxNs}

\* the classes a name index of a query may know, with their type parameters
IndexNames == {<<"X">>, <<"A", "X">>, <<"A", "B", "X">>, <<"B", "X">>, <<"G">>}
index_typarams(fullname) == IF fullname = <<"G">> THEN <<"T">> ELSE <<>>
ClassIndexes == {[f \in S |-> index_typarams(f)] : S \in SUBSET IndexNames}

TyparamLists == {<<>>, <<"T">>, <<"U", "T">>}
QueryNames ==
  {TN("X"), TN("T"), TN("G"), tyname(<<"B", "X">>, <<>>),
   tyname(<<"G">>, <<TN("T")>>), tyname(<<"G">>, <<TN("X")>>),
   tyname(<<"X">>, <<TN("X")>>)}

NoQuery == [op |-> "none"]
NoResult == [err |-> "not called"]

\* the calls of the resolver the model makes
Queries ==
  {[op |-> op, ci |-> ci, ns |-> ns, class_typarams |-> ctp,
    method_typarams |-> mtp, name |-> name] :
     op \in {"_resolve_typename"}, ci \in ClassIndexes, ns \in Namespaces,
     ctp \in TyparamLists, mtp \in TyparamLists, name \in QueryNames}
  \cup
  {[op |-> op, ci |-> ci, ns |-> ns, class_typarams |-> <<>>,
    method_typarams |-> <<>>, name |-> name] :
     op \in {"_resolve_simple_typename"}, ci \in ClassIndexes,
     ns \in Namespaces, name \in QueryNames}

\* a call of _resolve_typename
ResolveTypename ==
  /\ rt_query.op = "_resolve_typename"
  /\ rt_result = NoResult
  /\ rt_result' = _resolve_typename(rt_query.ci, rt_query.ns,
                                    rt_query.class_typarams,
                                    rt_query.method_typarams, rt_query.name)
  /\ UNCHANGED <<rt_query, sk_types, index_vars, hir_vars, match_vars, pattern_vars, check_vars, span_vars, codegen_vars>>

\* a call of _resolve_simple_typename
ResolveSimpleTypename ==
  /\ rt_query.op = "_resolve_simple_typename"
  /\ rt_result = NoResult
  /\ rt_result' = _resolve_simple_typename(rt_query.ci, rt_query.ns,
                                           rt_query.name.names)
  /\ UNCHANGED <<rt_query, sk_types, index_vars, hir_vars, match_vars, pattern_vars, check_vars, span_vars, codegen_vars>>

----------------------------------------------------------------------------
(* The indexing pass over a program                                        *)

\* The dictionary before the program is indexed: Object and Class of the
\* core library, with their metaclasses
CoreDict ==
  LET obj == SkClass(Erasure(<<"Object">>, FALSE), <<>>,
                     [n \in {"initialize"} |->
                        signature_of_initialize(<<"Object">>, <<>>)],
                     NoTy, EmptyMap, "false", FALSE)
      mobj == SkClass(Erasure(<<"Object">>, TRUE), <<>>,
                      [n \in {"new"} |->
                         signature_of_new(meta_name(<<"Object">>), <<>>,
                                          raw("Object"))],
                      Superclass_simple("Class"), EmptyMap, "none", FALSE)
      cls == SkClass(Erasure(<<"Class">>, FALSE), <<>>, EmptyMap,
                     Superclass_simple("Object"), EmptyMap, "false", FALSE)
      mcls == SkClass(Erasure(<<"Class">>, TRUE), <<>>, EmptyMap,
                      Superclass_simple("Class"), EmptyMap, "none", FALSE)
  IN  add_type(add_type(add_type(add_type(EmptyMap, obj), mobj), cls), mcls)

\* the names a supers list may hold: a class, a module, a generic enum
\* with and without its type argument, a name no definition declares, and a
\* class the program declares but may not have indexed yet
SuperNames ==
  {TN("A"), TN("M"), TN("E"), tyname(<<"E">>, <<TN("Object")>>), TN("Zzz"),
   TN("Later")}
MaxSupers == 2
SupersLists == UNION {[1..n -> SuperNames] : n \in 0..MaxSupers}

sig_initialize == AstMethodSignature("initialize", <<>>,
                                     <<Param("a", TN("Object"))>>, NoRet)
sig_foo == AstMethodSignature("foo", <<"T">>, <<Param("x", TN("T"))>>, TN("T"))
sig_make == AstMethodSignature("make", <<>>, <<>>, TN("A"))
sig_bar == AstMethodSignature("bar", <<>>, <<>>, NoRet)
sig_r == AstMethodSignature("r", <<>>, <<>>, TN("Object"))
sig_init_a == AstMethodSignature("initialize", <<>>,
                                 <<Param("x", TN("A"))>>, NoRet)
sig_init_t == AstMethodSignature("initialize", <<>>,
                                 <<Param("v", TN("T"))>>, NoRet)
sig_get == AstMethodSignature("get", <<"U">>,
                              <<Param("x", TN("A")), Param("y", TN("U"))>>,
                              TN("A"))

ClassDefs ==
  {ClassDefinition("C", <<>>, supers, <<>>) : supers \in SupersLists}
  \cup
  { ClassDefinition("A", <<>>, <<>>,
                    <<InstanceMethodDefinition(sig_initialize),
                      InstanceMethodDefinition(sig_foo),
                      ClassMethodDefinition(sig_make)>>),
    ClassDefinition("A", <<>>, <<>>, <<InstanceMethodDefinition(sig_bar)>>),
    ClassDefinition("D", <<"T">>, <<TN("C")>>,
                    <<InstanceMethodDefinition(sig_foo)>>),
    ClassDefinition("Later", <<>>, <<>>, <<>>),
    ClassDefinition("Outer", <<>>, <<>>,
                    <<ClassDefinition("Inner", <<>>, <<TN("A")>>, <<>>),
                      ConstDefinition("K")>>),
    ClassDefinition("Host", <<>>, <<>>,
                    <<ModuleDefinition("IM", <<>>, <<>>),
                      EnumDefinition("IE", <<>>, <<EnumCase("X", <<>>)>>, <<>>)>>),
    ClassDefinition("Bad", <<>>, <<>>, <<MethodRequirementDefinition(sig_r)>>),
    ClassDefinition("Never", <<>>, <<>>, <<>>),
    ClassDefinition("Box", <<>>, <<>>,
                    <<ClassDefinition("A", <<>>, <<>>, <<>>),
                      InstanceMethodDefinition(sig_init_a)>>),
    ClassDefinition("G", <<"T">>, <<>>,
                    <<InstanceMethodDefinition(sig_init_t)>>),
    ClassDefinition("H", <<>>, <<tyname(<<"G">>, <<TN("Object")>>)>>, <<>>),
    ClassDefinition("P", <<"A">>, <<>>,
                    <<InstanceMethodDefinition(sig_get),
                      ClassMethodDefinition(sig_get)>>) }

ModuleDefs ==
  { ModuleDefinition("M", <<>>,
                     <<MethodRequirementDefinition(sig_r),
                       InstanceMethodDefinition(sig_bar)>>),
    ModuleDefinition("N", <<"A">>,
                     <<MethodRequirementDefinition(sig_get),
                       InstanceMethodDefinition(sig_get)>>) }

EnumDefs ==
  { EnumDefinition("E", <<"T">>,
                   <<EnumCase("Some", <<Param("v", TN("T"))>>),
                     EnumCase("None", <<>>)>>,
                   <<InstanceMethodDefinition(sig_bar)>>),
    EnumDefinition("E2", <<>>,
                   <<EnumCase("P", <<>>),
                     EnumCase("Q", <<Param("v", TN("Zzz"))>>)>>, <<>>),
    EnumDefinition("E3", <<>>,
                   <<EnumCase("Pair", <<Param("a", TN("Object")),
                                        Param("b", TN("Class"))>>),
                     EnumCase("Dup", <<Param("a", TN("Object")),
                                       Param("a", TN("Class"))>>)>>, <<>>),
    EnumDefinition("A", <<>>, <<>>, <<>>) }

\* The name index (ClassDict.class_index): every class, module, enum and
\* enum case the core library and the program declare, with its type
\* parameters; it is complete before index_program starts
RECURSIVE declared(_, _)
declared(ns, def) ==
  IF def.kind \notin {"class", "module", "enum"} THEN {}
  ELSE {<<ns \o <<def.name>>, def.typarams>>}
       \cup UNION {declared(ns \o <<def.name>>, def.defs[i]) :
                     i \in 1..Len(def.defs)}
       \cup {<<ns \o <<def.name, def.cases[i].name>>,
               IF Len(def.cases[i].params) = 0 THEN <<>> ELSE def.typarams>> :
               i \in 1..Len(def.cases)}

name_index(defs) ==
  LET decls == UNION {declared(<<>>, def) : def \in defs}
                \cup {<<<<"Object">>, <<>>>>, <<<<"Class">>, <<>>>>}
  IN  [f \in {p[1] : p \in decls} |->
         (CHOOSE p \in decls : p[1] = f)[2]]

ProgramIndex == name_index(ClassDefs \cup ModuleDefs \cup EnumDefs)

NoCall == [op |-> "none"]

\* what index_program does with the outcome r of indexing one definition
visit(op, def, r) ==
  /\ sk_types' = r.d
  /\ last_call' = [op |-> op, def |-> def, before |-> sk_types,
                   reindex |-> def \in indexed, err |-> r.err]
  /\ indexed' = IF r.err = "none" THEN indexed \cup {def} ELSE indexed
  /\ idx_phase' = IF r.err = "none" THEN "indexing"
                  ELSE IF r.err = "panic" THEN "panicked" ELSE "failed"
  /\ n_calls' = n_calls + 1
  /\ UNCHANGED <<resolve_vars, hir_vars, match_vars, pattern_vars, check_vars, span_vars, codegen_vars>>

CanVisit == idx_phase = "indexing" /\ n_calls < MaxDefs

\* index_program: a toplevel class definition
IndexClass ==
  /\ CanVisit
  /\ \E def \in ClassDefs :
       visit("index_class", def, index_class(ProgramIndex, sk_types, <<>>, def))

\* index_program: a toplevel module definition
IndexModule ==
  /\ CanVisit
  /\ \E def \in ModuleDefs :
       visit("index_module", def, index_module(ProgramIndex, sk_types, <<>>, def))

\* index_program: a toplevel enum definition
IndexEnum ==
  /\ CanVisit
  /\ \E def \in EnumDefs :
       visit("index_enum", def, index_enum(ProgramIndex, sk_types, <<>>, def))

\* index_program: a toplevel constant definition is skipped
IndexConst ==
  /\ CanVisit
  /\ visit("const", ConstDefinition("K"), [err |-> "none", d |-> sk_types])

\* index_program: any other toplevel definition is a syntax error
IndexOther ==
  /\ CanVisit
  /\ \E def \in {InstanceMethodDefinition(sig_bar),
                 ClassMethodDefinition(sig_make),
                 MethodRequirementDefinition(sig_r)} :
       visit("other", def, [err |-> "SyntaxError", d |-> sk_types])

----------------------------------------------------------------------------
(* HIR construction: the context stack and the lowering of definitions     *)

\* The program whose lowering is followed
HirProgram ==
  << ClassDefinition("A", <<>>, <<>>,
                     <<InstanceMethodDefinition(sig_initialize),
                       ConstDefinition("K"),
                       InstanceMethodDefinition(sig_foo),
                       ClassMethodDefinition(sig_make)>>),
     EnumDefinition("E", <<"T">>,
                    <<EnumCase("Some", <<Param("v", TN("T"))>>),
                      EnumCase("None", <<>>)>>, <<>>),
     ClassDefinition("Outer", <<>>, <<>>,
                     <<ClassDefinition("Inner", <<>>, <<TN("A")>>,
                                       <<ConstDefinition("X"),
                                         InstanceMethodDefinition(sig_bar)>>),
                       ConstDefinition("Y"),
                       InstanceMethodDefinition(sig_bar)>>),
     ConstDefinition("TOP") >>

HirIndex == name_index({HirProgram[i] : i \in 1..Len(HirProgram)})

\* index_program: the arm of the match for one toplevel definition
index_toplevel_def(ci, d, def) ==
  CASE def.kind = "class" -> index_class(ci, d, <<>>, def)
    [] def.kind = "module" -> index_module(ci, d, <<>>, def)
    [] def.kind = "enum" -> index_enum(ci, d, <<>>, def)
    [] def.kind = "const" -> [err |-> "none", d |-> d]
    [] OTHER -> [err |-> "SyntaxError", d |-> d]

\* index_program over the definitions of the program, from the i-th on
RECURSIVE index_program_from(_, _, _, _)
index_program_from(ci, d, defs, i) ==
  IF i > Len(defs) THEN [err |-> "none", d |-> d]
  ELSE LET rest(r) == IF r.err # "none" THEN r
                      ELSE index_program_from(ci, r.d, defs, i + 1)
       IN  rest(index_toplevel_def(ci, d, defs[i]))

\* ClassDict::index_program
index_program(ci, d, defs) == index_program_from(ci, d, defs, 1)

\* the class dictionary make_hir hands to the HIR builder
IndexedDict == index_program(HirIndex, CoreDict, HirProgram).d

NoDef == Definition("none", "", <<>>, <<>>, <<>>, <<>>, NoSig)
NoReturn == [op |-> "none"]

\* a HirMakerContext: its kind and, for a class, the namespace
Frame(kind, ns) == [kind |-> kind, ns |-> ns]

\* an operation in progress: the context stack at its call, where it is in
\* its code, the definition it lowers and the next inner definition
Activation(op, snapshot, phase, def, i) ==
  [op |-> op, snapshot |-> snapshot, phase |-> phase, def |-> def, i |-> i]

top == calls[Len(calls)]
Front(q) == SubSeq(q, 1, Len(q) - 1)
set_top(a) == [calls EXCEPT ![Len(calls)] = a]

\* the namespace the operation on top lowers in
current_ns ==
  LET classes == {j \in 1..Len(ctx_stack) : ctx_stack[j].kind = "class"}
  IN  IF classes = {} THEN <<>>
      ELSE ctx_stack[CHOOSE j \in classes : \A l \in classes : l <= j].ns

Lowering == hir_status = "lowering" /\ calls # <<>>

\* the code on top is converting expressions (convert_expr, convert_exprs)
InExpressions ==
  /\ Lowering
  /\ \/ top.op = "toplevel" /\ top.phase = "expr"
     \/ top.op = "class" /\ top.phase = "consts"
     \/ top.op \in {"method", "block", "clause"} /\ top.phase = "body"

\* the definition the loop on top is at
AtDef(kind) ==
  /\ Lowering
  /\ \/ top.op = "toplevel" /\ top.phase = "items"
        /\ top.i <= Len(HirProgram) /\ HirProgram[top.i].kind = kind
     \/ top.op = "class" /\ top.phase = "defs"
        /\ top.i <= Len(top.def.defs) /\ top.def.defs[top.i].kind = kind
the_def == IF top.op = "toplevel" THEN HirProgram[top.i] ELSE top.def.defs[top.i]

\* the caller goes on after the callee returned Ok
resume(a) ==
  IF a.op = "toplevel" THEN [a EXCEPT !.phase = "items", !.i = @ + 1]
  ELSE IF a.op = "class" /\ a.phase = "defs" THEN [a EXCEPT !.i = @ + 1]
  ELSE IF a.op = "class" /\ a.phase = "initialize" THEN [a EXCEPT !.phase = "ivars"]
  ELSE a

Returned(a, after, err) ==
  [op |-> a.op, before |-> a.snapshot, after |-> after, err |-> err]

\* process_class_def, up to the push of the class frame
ProcessClassDef ==
  /\ AtDef("class")
  /\ Len(calls) < MaxDepth
  /\ ctx_stack' = Append(ctx_stack, Frame("class", current_ns \o <<the_def.name>>))
  /\ calls' = Append(calls, Activation("class", ctx_stack, "consts", the_def, 1))
  /\ UNCHANGED <<match_vars, pattern_vars, check_vars, span_vars, codegen_vars, resolve_vars, index_vars, const_inits, sk_types, hir_status, returned>>

\* the constant definitions of a body, in the order of the source
select_consts(defs) ==
  LET idx == {i \in 1..Len(defs) : defs[i].kind = "const"}
      nth(k) == CHOOSE i \in idx : Cardinality({j \in idx : j < i}) = k - 1
  IN  [k \in 1..Cardinality(idx) |-> defs[nth(k)]]

\* _process_const_defs_in_class: the full names of the constants it passes
\* to register_const_full, in the order of the calls
const_defs_in_class(namespace, defs) ==
  [k \in 1..Len(select_consts(defs)) |->
     namespace \o <<select_consts(defs)[k].name>>]

\* process_class_def: _process_const_defs_in_class returned Ok
ConstsDone ==
  /\ Lowering /\ top.op = "class" /\ top.phase = "consts"
  /\ calls' = set_top([top EXCEPT !.phase = "initialize"])
  /\ const_inits' = const_inits \o const_defs_in_class(current_ns, top.def.defs)
  /\ UNCHANGED <<match_vars, pattern_vars, check_vars, span_vars, codegen_vars, resolve_vars, index_vars, sk_types, ctx_stack, hir_status, returned>>

has_initializer(def) == \E i \in 1..Len(def.defs) : is_initializer(def.defs[i])

\* convert_method_def_, up to the push of the method frame
call_method(def) ==
  /\ ctx_stack' = Append(ctx_stack, Frame("method", <<>>))
  /\ calls' = Append(calls, Activation("method", ctx_stack, "body", def, 1))
  /\ UNCHANGED <<match_vars, pattern_vars, check_vars, span_vars, codegen_vars, resolve_vars, index_vars, const_inits, sk_types, hir_status, returned>>

\* _process_initialize of a class that defines #initialize: create_initialize
CreateInitialize ==
  /\ Lowering /\ top.op = "class" /\ top.phase = "initialize"
  /\ has_initializer(top.def)
  /\ Len(calls) < MaxDepth
  /\ call_method(NoDef)

\* _process_initialize of a class without #initialize: no own ivars
SkipInitialize ==
  /\ Lowering /\ top.op = "class" /\ top.phase = "initialize"
  /\ ~has_initializer(top.def)
  /\ calls' = set_top([top EXCEPT !.phase = "new"])
  /\ UNCHANGED <<match_vars, pattern_vars, check_vars, span_vars, codegen_vars, resolve_vars, index_vars, const_inits, sk_types, ctx_stack, hir_status, returned>>

\* the instance variables #initialize of a class may assign
IVarSets == {{}, {"a"}, {"a", "foo"}}
SkIVar(idx, name, ty, readonly) ==
  [idx |-> idx, name |-> name, ty |-> ty, readonly |-> readonly]
own_ivars_of(names) ==
  [n \in names |-> SkIVar(IF n = "a" THEN 0 ELSE 1, n, raw("Object"), FALSE)]

\* HirMaker::define_accessors: a getter for every ivar no method of the
\* class body is named after
RECURSIVE define_accessors(_, _, _, _)
define_accessors(d, clsname, ivars, def_names) ==
  IF DOMAIN ivars = {} THEN d
  ELSE LET n == CHOOSE n \in DOMAIN ivars : TRUE
           rest == [m \in DOMAIN ivars \ {n} |-> ivars[m]]
           d1 == IF n \in def_names THEN d
                 ELSE add_method(d, clsname,
                                 MethodSignature(method_fullname(clsname, n),
                                                 ivars[n].ty, <<>>, <<>>))
       IN  define_accessors(d1, clsname, rest, def_names)

\* process_class_def: the ivars found in #initialize are put in the class
\* dictionary and accessors are defined for them
DefineIvars ==
  /\ Lowering /\ top.op = "class" /\ top.phase = "ivars"
  /\ \E names \in IVarSets :
       LET own_ivars == own_ivars_of(names)
           fullname == current_ns
           def_names == {top.def.defs[i].name : i \in 1..Len(top.def.defs)}
       IN  sk_types' =
             IF names # {}
             THEN define_accessors(define_ivars(sk_types, fullname, own_ivars),
                                   fullname, own_ivars, def_names)
             ELSE sk_types
  /\ calls' = set_top([top EXCEPT !.phase = "new"])
  /\ UNCHANGED <<match_vars, pattern_vars, check_vars, span_vars, codegen_vars, resolve_vars, index_vars, const_inits, ctx_stack, hir_status, returned>>

\* HirMaker::create_new: the lookups of #initialize and .new
create_new_ok(d, fullname) ==
  /\ lookup_method(d, nonmeta(fullname, <<>>), "initialize").found
  /\ lookup_method(d, [nonmeta(fullname, <<>>) EXCEPT !.meta = TRUE], "new").found

\* process_class_def: register .new
CreateNew ==
  /\ Lowering /\ top.op = "class" /\ top.phase = "new"
  /\ IF current_ns = <<"Class">> \/ create_new_ok(sk_types, current_ns)
     THEN calls' = set_top([top EXCEPT !.phase = "defs"]) /\ UNCHANGED hir_status
     ELSE hir_status' = "error" /\ UNCHANGED calls
  /\ UNCHANGED <<match_vars, pattern_vars, check_vars, span_vars, codegen_vars, resolve_vars, index_vars, const_inits, sk_types, ctx_stack, returned>>

\* process_class_def: an instance or class method of the body
ConvertMethodDef ==
  /\ AtDef("imethod") \/ AtDef("cmethod")
  /\ top.op = "class"
  /\ ~is_initializer(the_def)
  /\ Len(calls) < MaxDepth
  /\ call_method(the_def)

\* process_class_def: #initialize and the constants were processed before
SkipDef ==
  /\ AtDef("const") \/ AtDef("imethod")
  /\ top.op = "class"
  /\ AtDef("imethod") => is_initializer(the_def)
  /\ calls' = set_top(resume(top))
  /\ UNCHANGED <<match_vars, pattern_vars, check_vars, span_vars, codegen_vars, resolve_vars, index_vars, const_inits, sk_types, ctx_stack, hir_status, returned>>

\* _register_enum_case_class for the cases of an enum, from the i-th on
RECURSIVE register_enum_cases(_, _, _, _)
register_enum_cases(d, ns, cases, i) ==
  IF i > Len(cases) THEN [err |-> "none", d |-> d]
  ELSE LET fullname == ns \o <<cases[i].name>>
           d1 == define_accessors(d, fullname, d[fullname].ivars, {})
       IN  IF ~create_new_ok(d1, fullname) THEN [err |-> "error", d |-> d1]
           ELSE register_enum_cases(d1, ns, cases, i + 1)

\* process_enum_def
ProcessEnumDef ==
  /\ AtDef("enum")
  /\ LET r == register_enum_cases(sk_types, current_ns \o <<the_def.name>>,
                                  the_def.cases, 1)
     IN  /\ sk_types' = r.d
         /\ IF r.err = "none"
            THEN calls' = set_top(resume(top)) /\ UNCHANGED hir_status
            ELSE hir_status' = "error" /\ UNCHANGED calls
  /\ UNCHANGED <<match_vars, pattern_vars, check_vars, span_vars, codegen_vars, resolve_vars, index_vars, const_inits, ctx_stack, returned>>

\* an operation returns Ok after popping its frame
return_ok ==
  /\ ctx_stack' = Front(ctx_stack)
  /\ calls' = [Front(calls) EXCEPT ![Len(calls) - 1] = resume(@)]
  /\ returned' = Returned(top, Front(ctx_stack), "none")

\* process_class_def: the inner definitions are done; pop and return
ClassReturn ==
  /\ Lowering /\ top.op = "class" /\ top.phase = "defs"
  /\ top.i > Len(top.def.defs)
  /\ return_ok
  /\ UNCHANGED <<match_vars, pattern_vars, check_vars, span_vars, codegen_vars, resolve_vars, index_vars, const_inits, sk_types, hir_status>>

\* convert_method_def_: the body is converted; pop_method_ctx, then
\* check_return_value
MethodReturn ==
  /\ Lowering /\ top.op = "method" /\ top.phase = "body"
  /\ \/ return_ok /\ UNCHANGED hir_status
     \/ /\ ctx_stack' = Front(ctx_stack)
        /\ calls' = Front(calls)
        /\ returned' = Returned(top, Front(ctx_stack), "TypeError")
        /\ hir_status' = "error"
  /\ UNCHANGED <<match_vars, pattern_vars, check_vars, span_vars, codegen_vars, resolve_vars, index_vars, const_inits, sk_types>>

\* _convert_block, up to the push of the lambda frame
ConvertBlock ==
  /\ InExpressions
  /\ Len(calls) < MaxDepth
  /\ ctx_stack' = Append(ctx_stack, Frame("lambda", <<>>))
  /\ calls' = Append(calls, Activation("block", ctx_stack, "body", NoDef, 1))
  /\ UNCHANGED <<match_vars, pattern_vars, check_vars, span_vars, codegen_vars, resolve_vars, index_vars, const_inits, sk_types, hir_status, returned>>

\* compile_body of a match clause, up to the push of the clause frame
CompileBody ==
  /\ InExpressions
  /\ Len(calls) < MaxDepth
  /\ ctx_stack' = Append(ctx_stack, Frame("match_clause", <<>>))
  /\ calls' = Append(calls, Activation("clause", ctx_stack, "body", NoDef, 1))
  /\ UNCHANGED <<match_vars, pattern_vars, check_vars, span_vars, codegen_vars, resolve_vars, index_vars, const_inits, sk_types, hir_status, returned>>

\* _convert_block and compile_body: the body is converted; pop and return
BodyReturn ==
  /\ Lowering /\ top.op \in {"block", "clause"} /\ top.phase = "body"
  /\ return_ok
  /\ UNCHANGED <<match_vars, pattern_vars, check_vars, span_vars, codegen_vars, resolve_vars, index_vars, const_inits, sk_types, hir_status>>

\* convert_toplevel_items: a constant or an expression of the toplevel is
\* converted, or has been converted
ToplevelItem ==
  /\ Lowering /\ top.op = "toplevel"
  /\ \/ /\ top.phase = "items" /\ top.i <= Len(HirProgram)
        /\ HirProgram[top.i].kind = "const"
        /\ calls' = set_top([top EXCEPT !.phase = "expr"])
        /\ UNCHANGED const_inits
     \/ /\ top.phase = "expr"
        /\ calls' = set_top(resume(top))
        /\ const_inits' = Append(const_inits, <<HirProgram[top.i].name>>)
  /\ UNCHANGED <<match_vars, pattern_vars, check_vars, span_vars, codegen_vars, resolve_vars, index_vars, sk_types, ctx_stack, hir_status, returned>>

\* the conversion of an expression returns Err
Fail ==
  /\ InExpressions
  /\ hir_status' = "error"
  /\ UNCHANGED <<match_vars, pattern_vars, check_vars, span_vars, codegen_vars, resolve_vars, index_vars, const_inits, sk_types, ctx_stack, calls, returned>>

\* the operator ? hands the Err to the caller: the operation returns at once
ReturnErr ==
  /\ hir_status = "error"
  /\ Len(calls) > 1
  /\ calls' = Front(calls)
  /\ returned' = Returned(top, ctx_stack, "Err")
  /\ UNCHANGED <<match_vars, pattern_vars, check_vars, span_vars, codegen_vars, resolve_vars, index_vars, const_inits, sk_types, ctx_stack, hir_status>>

\* convert_toplevel_items returns Err and so does make_hir
ToplevelErr ==
  /\ hir_status = "error"
  /\ Len(calls) = 1
  /\ calls' = <<>>
  /\ hir_status' = "failed"
  /\ UNCHANGED <<match_vars, pattern_vars, check_vars, span_vars, codegen_vars, resolve_vars, index_vars, const_inits, sk_types, ctx_stack, returned>>

\* convert_toplevel_items: every item is done; pop_toplevel_ctx
ToplevelDone ==
  /\ Lowering /\ top.op = "toplevel" /\ top.phase = "items"
  /\ top.i > Len(HirProgram)
  /\ ctx_stack' = Front(ctx_stack)
  /\ calls' = <<>>
  /\ hir_status' = "done"
  /\ UNCHANGED <<match_vars, pattern_vars, check_vars, span_vars, codegen_vars, resolve_vars, index_vars, const_inits, sk_types, returned>>

\* extract_hir moves the classes out of the builder
ExtractHir ==
  /\ hir_status = "done"
  /\ sk_types' = EmptyMap
  /\ hir_status' = "extracted"
  /\ UNCHANGED <<match_vars, pattern_vars, check_vars, span_vars, codegen_vars, resolve_vars, index_vars, const_inits, ctx_stack, calls, returned>>

----------------------------------------------------------------------------
(* Lowering of match expressions                                           *)

\* The classes the clause bodies of the match expressions are typed with
MatchProgram ==
  << ClassDefinition("A", <<>>, <<>>, <<>>),
     ClassDefinition("B", <<>>, <<TN("A")>>, <<>>),
     ClassDefinition("C", <<>>, <<>>, <<>>),
     ModuleDefinition("M", <<>>, <<>>) >>

MatchDict ==
  index_program(name_index({MatchProgram[i] : i \in 1..Len(MatchProgram)}),
                CoreDict, MatchProgram).d

\* TermTy::is_never_type, TermTy::is_void_type
is_never_type(ty) == ty.tag = "raw" /\ ty.name = <<"Never">>
is_void_type(ty) == ty.tag = "raw" /\ ty.name = <<"Void">>

\* the type and its superclasses, nearest first
RECURSIVE ancestor_types(_, _, _)
ancestor_types(d, ty, fuel) ==
  IF fuel = 0 \/ ty = NoTy \/ erasure_fullname(ty) \notin DOMAIN d THEN <<>>
  ELSE <<ty>> \o ancestor_types(d, d[erasure_fullname(ty)].superclass, fuel - 1)

\* ClassDict::nearest_common_ancestor: the lowest ancestor of ty1 that is
\* also an ancestor of ty2
nearest_common_ancestor(d, ty1, ty2) ==
  LET a1 == ancestor_types(d, ty1, Cardinality(DOMAIN d))
      a2 == ancestor_types(d, ty2, Cardinality(DOMAIN d))
      common == {i \in 1..Len(a1) : \E j \in 1..Len(a2) : a1[i] = a2[j]}
  IN  IF common = {} THEN [found |-> FALSE, ty |-> NoTy]
      ELSE [found |-> TRUE,
            ty |-> a1[CHOOSE i \in common : \A j \in common : i <= j]]

\* a HirExpressions: its type, what it is, and the type it had when converted
HirExpressions(ty, node, from) == [ty |-> ty, node |-> node, from |-> from]

\* HirExpressions::voidify
voidify(e) == HirExpressions(raw("Void"), "voidified", e.from)

\* HirExpressions::bitcast_to
bitcast_to(e, ty) == HirExpressions(ty, "bitcast", e.from)

MatchClause(components, body_hir, lvars) ==
  [components |-> components, body_hir |-> body_hir, lvars |-> lvars]

\* the clause convert_match_expr pushes last
PanicClause ==
  MatchClause(<<>>,
              HirExpressions(raw("Never"),
                             "Object#panic(no matching clause found)",
                             raw("Never")),
              <<>>)

\* generate_lvar_name that leaves the counter as it is
generate_lvar_name_counter_kept(prefix, n) ==
  [name |-> prefix \o "@" \o ToString(n) \o "_", gensym_ct |-> n]

\* HirMaker::generate_lvar_name: the name format!("{}@{}_", prefix, n) of the
\* counter n, and the counter after the call
generate_lvar_name(prefix, n) ==
  [name |-> prefix \o "@" \o ToString(n) \o "_", gensym_ct |-> n + 1]

\* the fold with the type of the clause itself carried on, in place of the
\* ancestor it has in common with the types before it
RECURSIVE fold_common_ancestor_clause_carried(_, _, _, _)
fold_common_ancestor_clause_carried(d, tys, ty, i) ==
  IF i > Len(tys) THEN [found |-> TRUE, ty |-> ty]
  ELSE LET r == nearest_common_ancestor(d, ty, tys[i])
       IN  IF r.found
           THEN fold_common_ancestor_clause_carried(d, tys, tys[i], i + 1)
           ELSE r

\* the fold of nearest_common_ancestor over the clauses, from the i-th on
RECURSIVE fold_common_ancestor(_, _, _, _)
fold_common_ancestor(d, tys, ty, i) ==
  IF i > Len(tys) THEN [found |-> TRUE, ty |-> ty]
  ELSE LET r == nearest_common_ancestor(d, ty, tys[i])
       IN  IF r.found THEN fold_common_ancestor(d, tys, r.ty, i + 1) ELSE r

select_seq(q, keep) ==
  LET idx == {i \in 1..Len(q) : keep[i]}
      nth(n) == CHOOSE i \in idx : Cardinality({j \in idx : j < i}) = n - 1
  IN  [n \in 1..Cardinality(idx) |-> q[nth(n)]]

calc_result_ty_without_bitcast(d, clauses_, debug_assertions) ==
  LET keep == [i \in 1..Len(clauses_) |-> ~is_never_type(clauses_[i].body_hir.ty)]
      tys == select_seq([i \in 1..Len(clauses_) |-> clauses_[i].body_hir.ty], keep)
  IN  IF debug_assertions /\ clauses_ = <<>>
      THEN [err |-> "panic", ty |-> NoTy, clauses |-> clauses_]
      ELSE IF tys = <<>>
      THEN [err |-> "none", ty |-> raw("Never"), clauses |-> clauses_]
      ELSE IF \E i \in 1..Len(tys) : is_void_type(tys[i])
      THEN [err |-> "none", ty |-> raw("Void"),
            clauses |-> [i \in 1..Len(clauses_) |->
                           IF keep[i] /\ ~is_void_type(clauses_[i].body_hir.ty)
                           THEN [clauses_[i] EXCEPT !.body_hir = voidify(@)]
                           ELSE clauses_[i]]]
      ELSE LET r == fold_common_ancestor(d, tys, tys[1], 1)
           IN  IF ~r.found
               THEN [err |-> "TypeError", ty |-> NoTy, clauses |-> clauses_]
               ELSE [err |-> "none", ty |-> r.ty, clauses |-> clauses_]

\* calc_result_ty: the type of the match expression; the bodies of the
\* clauses are voidified or bitcast to it
calc_result_ty(d, clauses_, debug_assertions) ==
  LET keep == [i \in 1..Len(clauses_) |-> ~is_never_type(clauses_[i].body_hir.ty)]
      tys == select_seq([i \in 1..Len(clauses_) |-> clauses_[i].body_hir.ty], keep)
  IN  IF debug_assertions /\ clauses_ = <<>>
      THEN [err |-> "panic", ty |-> NoTy, clauses |-> clauses_]
      ELSE IF tys = <<>>
      THEN [err |-> "none", ty |-> raw("Never"), clauses |-> clauses_]
      ELSE IF \E i \in 1..Len(tys) : is_void_type(tys[i])
      THEN [err |-> "none", ty |-> raw("Void"),
            clauses |-> [i \in 1..Len(clauses_) |->
                           IF keep[i] /\ ~is_void_type(clauses_[i].body_hir.ty)
                           THEN [clauses_[i] EXCEPT !.body_hir = voidify(@)]
                           ELSE clauses_[i]]]
      ELSE LET r == fold_common_ancestor(d, tys, tys[1], 1)
           IN  IF ~r.found
               THEN [err |-> "TypeError", ty |-> NoTy, clauses |-> clauses_]
               ELSE [err |-> "none", ty |-> r.ty,
                     clauses |-> [i \in 1..Len(clauses_) |->
                                    IF keep[i] /\ clauses_[i].body_hir.ty # r.ty
                                    THEN [clauses_[i] EXCEPT
                                            !.body_hir = bitcast_to(@, r.ty)]
                                    ELSE clauses_[i]]]

----------------------------------------------------------------------------
(* Conformance of types                                                    *)

\* the bounds of a type-parameter reference made by ty::typaram_ref
upper_bound(ref) == raw("Object")
lower_bound(ref) == raw("Never")

\* the ancestor of the literal type ty whose erasure is target, with the type
\* arguments of ty carried up the superclass chain
RECURSIVE ancestor_with_erasure(_, _, _, _)
ancestor_with_erasure(d, ty, target, fuel) ==
  IF fuel = 0 \/ ty = NoTy THEN NoTy
  ELSE IF erasure_fullname(ty) = target THEN ty
  ELSE IF erasure_fullname(ty) \notin DOMAIN d THEN NoTy
  ELSE LET sup == d[erasure_fullname(ty)].superclass
       IN  IF sup = NoTy THEN NoTy
           ELSE ancestor_with_erasure(d, substitute(sup, ty.args, <<>>),
                                      target, fuel - 1)

\* ClassDict::conforms: a value of ty1 is usable where ty2 is expected.
\* The type parameters of the programs modelled are declared without
\* variance, so the type arguments on the common ancestor must be equal.
conforms(d, ty1, ty2) ==
  LET lit_conforms(a, b) ==
        \/ a = b
        \/ is_never_type(a)
        \/ ancestor_with_erasure(d, a, erasure_fullname(b),
                                 Cardinality(DOMAIN d) + 1) = b
  IN  IF ty1 = ty2 THEN TRUE
      ELSE IF ty1.tag = "para" /\ ty2.tag = "para"
      THEN lit_conforms(upper_bound(ty1), lower_bound(ty2))
      ELSE IF ty1.tag = "para" THEN lit_conforms(upper_bound(ty1), ty2)
      ELSE IF ty2.tag = "para" THEN lit_conforms(ty1, lower_bound(ty2))
      ELSE lit_conforms(ty1, ty2)

----------------------------------------------------------------------------
(* Patterns: convert_match                                                 *)

\* the patterns of the AST
Pattern(kind, names, params, value) ==
  [kind |-> kind, names |-> names, params |-> params, value |-> value]
ExtractorPattern(names, params) == Pattern("extractor", names, params, "")
VariablePattern(name) == Pattern("variable", <<name>>, <<>>, "")
BooleanLiteralPattern(b) == Pattern("literal", <<"Bool">>, <<>>, b)
IntegerLiteralPattern(i) == Pattern("literal", <<"Int">>, <<>>, i)
FloatLiteralPattern(f) == Pattern("literal", <<"Float">>, <<>>, f)
StringLiteralPattern(s) == Pattern("literal", <<"String">>, <<>>, s)

\* the expressions of the HIR that a pattern is compiled to
HirExpression(ty, node) == [ty |-> ty, node |-> node]
Hir_lvar_ref(ty, name) == HirExpression(ty, [op |-> "lvar_ref", name |-> name])
Hir_bit_cast(ty, expr) == HirExpression(ty, [op |-> "bit_cast", expr |-> expr])
Hir_const_ref(ty, fullname) ==
  HirExpression(ty, [op |-> "const_ref", fullname |-> fullname])
Hir_literal(ty, value) ==
  HirExpression(ty, [op |-> "literal", value |-> value])
Hir_method_call(ty, receiver, method, args) ==
  HirExpression(ty, [op |-> "method_call", receiver |-> receiver,
                     method |-> method, args |-> args])
class_expr(ty) ==
  HirExpression([ty EXCEPT !.meta = TRUE],
                [op |-> "class_expr", fullname |-> ty.name])

\* Component::Test, Component::Bind
Test(expr) == [kind |-> "Test", name |-> "", expr |-> expr]
Bind(name, expr) == [kind |-> "Bind", name |-> name, expr |-> expr]

Components(cs) == [err |-> "none", components |-> cs]
PatternErr(err) == [err |-> err, components |-> <<>>]

\* TermTy::meta_ty, TermTy::instance_ty, TermTy::erasure
meta_ty(ty) == [ty EXCEPT !.meta = TRUE]
instance_ty(ty) == [ty EXCEPT !.meta = FALSE]
erasure(ty) == Erasure(ty.name, ty.meta)

\* convert_capitalized_name: the constant of that name; the constant of a
\* class holds the class object, that of a class with const_is_obj its only
\* instance
convert_capitalized_name(d, consts, names) ==
  IF names \in DOMAIN d
  THEN [err |-> "none",
        ty |-> IF d[names].const_is_obj THEN nonmeta(names, <<>>)
               ELSE meta_ty(nonmeta(names, <<>>))]
  ELSE IF names \in DOMAIN consts
  THEN [err |-> "none", ty |-> consts[names]]
  ELSE [err |-> "NameError", ty |-> NoTy]

\* get_base_ty
get_base_ty(d, consts, names) ==
  LET base(expr) ==
        IF expr.err # "none" THEN [err |-> expr.err]
        ELSE IF expr.ty.meta \/ expr.ty.tag = "para"
        THEN [err |-> "none", erasure |-> erasure(instance_ty(expr.ty))]
        ELSE IF /\ expr.ty.name \in DOMAIN d
                /\ d[expr.ty.name].kind = "class"
                /\ d[expr.ty.name].const_is_obj
        THEN [err |-> "none", erasure |-> erasure(expr.ty)]
        ELSE [err |-> "TypeError"]
  IN  base(convert_capitalized_name(d, consts, names))

\* SkType::term_ty: the type applied to its own type parameters
term_ty(sk_type) ==
  nonmeta(sk_type.erasure.name, typaram_refs(sk_type.typarams))

\* infer_pat_ty
infer_pat_ty(d, pat_base_ty, value_ty) ==
  IF value_ty.tag = "raw"
  THEN substitute(term_ty(d[fullname_(pat_base_ty)]), value_ty.args, <<>>)
  ELSE nonmeta(pat_base_ty.name, <<>>)

\* class_props: the names and types of the parameters of #initialize
class_props(d, cls) ==
  LET props(found) ==
        IF ~found.found THEN [err |-> "ProgramError", ivars |-> <<>>]
        ELSE [err |-> "none", ivars |-> found.sig.params]
  IN  props(lookup_method(d, cls, "initialize"))

\* name_.replace('@', ""): the names of the programs modelled that hold an @
without_at(name) ==
  IF name = "@a" THEN "a" ELSE IF name = "@b" THEN "b" ELSE name

\* check_ty_raw
check_ty_raw(value, name) == value.ty = raw(name)

\* make_eq_test
make_eq_test(value, name, rhs) ==
  Test(Hir_method_call(raw("Bool"), value, method_fullname(<<name>>, "=="),
                       <<rhs>>))

\* test_class with the comparison of classes for every class, the classes
\* whose constant holds their only instance included
test_class_of_every_class(d, value, pat_ty) ==
  Hir_method_call(
    raw("Bool"),
    Hir_method_call(
      raw("Class"),
      Hir_method_call(raw("Class"), value,
                      method_fullname(<<"Object">>, "class"), <<>>),
      method_fullname(<<"Class">>, "erasure_class"), <<>>),
    method_fullname(<<"Class">>, "=="),
    <<class_expr(nonmeta(pat_ty.name, <<>>))>>)

\* test_class
test_class(d, value, pat_ty) ==
  IF d[fullname_(erasure(pat_ty))].const_is_obj
  THEN Hir_method_call(raw("Bool"), Hir_const_ref(pat_ty, pat_ty.name),
                       method_fullname(<<"Object">>, "=="), <<value>>)
  ELSE Hir_method_call(
         raw("Bool"),
         Hir_method_call(
           raw("Class"),
           Hir_method_call(raw("Class"), value,
                           method_fullname(<<"Object">>, "class"), <<>>),
           method_fullname(<<"Class">>, "erasure_class"), <<>>),
         method_fullname(<<"Class">>, "=="),
         <<class_expr(nonmeta(pat_ty.name, <<>>))>>)

\* the i-th property of the value cast to the pattern type: `value.name`
ivar_ref(value, pat_ty, ivar) ==
  Hir_method_call(ivar.ty, value,
                  method_fullname(pat_ty.name, without_at(ivar.name)), <<>>)

RECURSIVE convert_match(_, _, _, _)
RECURSIVE extract_props_from(_, _, _, _, _, _, _, _)

\* the loop of extract_props from the i-th property on
extract_props_from(d, consts, value, pat_ty, ivars, patterns, i, components) ==
  IF i > Len(ivars) THEN Components(components)
  ELSE LET next(r) ==
             IF r.err # "none" THEN PatternErr(r.err)
             ELSE extract_props_from(d, consts, value, pat_ty, ivars, patterns,
                                     i + 1, components \o r.components)
       IN  next(convert_match(d, consts, ivar_ref(value, pat_ty, ivars[i]),
                              patterns[i]))

\* extract_props without the comparison of the two lengths: the patterns
\* there are are compiled, those missing are left out
extract_props_unchecked(d, consts, value, pat_ty, patterns) ==
  LET props(p) ==
        IF p.err # "none" THEN PatternErr(p.err)
        ELSE extract_props_from(
               d, consts, value, pat_ty,
               SubSeq(p.ivars, 1, IF Len(p.ivars) < Len(patterns)
                                  THEN Len(p.ivars) ELSE Len(patterns)),
               patterns, 1, <<>>)
  IN  props(class_props(d, pat_ty))

\* extract_props
extract_props(d, consts, value, pat_ty, patterns) ==
  LET props(p) ==
        IF p.err # "none" THEN PatternErr(p.err)
        ELSE IF Len(p.ivars) # Len(patterns) THEN PatternErr("ProgramError")
        ELSE extract_props_from(d, consts, value, pat_ty, p.ivars, patterns,
                                1, <<>>)
  IN  props(class_props(d, pat_ty))

\* convert_extractor with the properties extracted before the pattern type
\* is checked against the type of the value
convert_extractor_props_first(d, consts, value, names, param_patterns) ==
  LET with_test(pat_ty, r) ==
        IF r.err # "none" THEN r
        ELSE IF ~conforms(d, pat_ty, value.ty) THEN PatternErr("TypeError")
        ELSE Components(<<Test(test_class(d, value, pat_ty))>> \o r.components)
      with_ty(pat_ty) ==
        with_test(pat_ty,
                  extract_props(d, consts, Hir_bit_cast(pat_ty, value), pat_ty,
                                param_patterns))
      with_base(b) ==
        IF b.err # "none" THEN PatternErr(b.err)
        ELSE with_ty(infer_pat_ty(d, b.erasure, value.ty))
  IN  with_base(get_base_ty(d, consts, names))

\* convert_extractor
convert_extractor(d, consts, value, names, param_patterns) ==
  LET with_test(pat_ty, r) ==
        IF r.err # "none" THEN r
        ELSE Components(<<Test(test_class(d, value, pat_ty))>> \o r.components)
      with_ty(pat_ty) ==
        IF ~conforms(d, pat_ty, value.ty) THEN PatternErr("TypeError")
        ELSE with_test(pat_ty,
                       extract_props(d, consts, Hir_bit_cast(pat_ty, value),
                                     pat_ty, param_patterns))
      with_base(b) ==
        IF b.err # "none" THEN PatternErr(b.err)
        ELSE with_ty(infer_pat_ty(d, b.erasure, value.ty))
  IN  with_base(get_base_ty(d, consts, names))

\* convert_match
convert_match(d, consts, value, pat) ==
  IF pat.kind = "extractor"
  THEN convert_extractor(d, consts, value, pat.names, pat.params)
  ELSE IF pat.kind = "variable"
  THEN IF pat.names[1] = "_" THEN Components(<<>>)
       ELSE Components(<<Bind(pat.names[1], value)>>)
  ELSE IF ~check_ty_raw(value, pat.names[1]) THEN PatternErr("TypeError")
  ELSE Components(<<make_eq_test(value, pat.names[1],
                                 Hir_literal(raw(pat.names[1]), pat.value))>>)

\* the program whose classes the patterns name
PatternProgram ==
  << EnumDefinition("E", <<"T">>,
                    <<EnumCase("Some", <<Param("v", TN("T"))>>),
                      EnumCase("None", <<>>)>>, <<>>),
     ClassDefinition("A", <<>>, <<>>,
                     <<InstanceMethodDefinition(
                         AstMethodSignature("initialize", <<>>,
                                            <<Param("@a", TN("Object")),
                                              Param("@b", TN("Object"))>>,
                                            NoRet))>>),
     ClassDefinition("B", <<>>, <<TN("A")>>, <<>>),
     ClassDefinition("C", <<>>, <<>>, <<>>),
     ClassDefinition("G", <<"T">>, <<>>,
                     <<InstanceMethodDefinition(
                         AstMethodSignature("initialize", <<>>,
                                            <<Param("@a", TN("T"))>>,
                                            NoRet))>>) >>

PatternDict ==
  index_program(name_index({PatternProgram[i] : i \in 1..Len(PatternProgram)}),
                CoreDict, PatternProgram).d

\* the constants that name no class
PatternConsts == (<<"K">> :> raw("Int"))

\* the most sub-patterns of an extractor pattern
MaxPatterns == 2

LeafPatterns ==
  {VariablePattern("x"), VariablePattern("_"), IntegerLiteralPattern("1"),
   BooleanLiteralPattern("true")}

InnerPatterns ==
  LeafPatterns \cup
  {ExtractorPattern(<<"E", "Some">>, <<VariablePattern("y")>>),
   ExtractorPattern(<<"E", "None">>, <<>>),
   ExtractorPattern(<<"C">>, <<VariablePattern("y")>>),
   ExtractorPattern(<<"A">>, <<VariablePattern("y")>>)}

PatternNames ==
  {<<"A">>, <<"B">>, <<"C">>, <<"G">>, <<"E", "Some">>, <<"E", "None">>,
   <<"K">>, <<"Zzz">>}

Patterns ==
  LeafPatterns \cup
  {ExtractorPattern(names, params) :
     names \in PatternNames,
     params \in UNION {[1..n -> InnerPatterns] : n \in 0..MaxPatterns}}

\* the types of the values matched
ValueTypes ==
  {raw("Object"), raw("A"), raw("B"), raw("C"), raw("Int"),
   nonmeta(<<"E">>, <<raw("A")>>), nonmeta(<<"E">>, <<raw("Int")>>),
   nonmeta(<<"G">>, <<raw("A")>>), nonmeta(<<"G">>, <<raw("Int")>>),
   nonmeta(<<"G">>, <<nonmeta(<<"E">>, <<raw("A")>>)>>)}

PatternQueries ==
  {[op |-> "convert_match", value |-> Hir_lvar_ref(ty, "expr@1"), pat |-> pat] :
     ty \in ValueTypes, pat \in Patterns}

\* a call of convert_match
ConvertMatch ==
  /\ pat_query.op = "convert_match"
  /\ pat_result = NoResult
  /\ pat_result' = convert_match(sk_types, PatternConsts, pat_query.value,
                                 pat_query.pat)
  /\ UNCHANGED <<pat_query, sk_types, resolve_vars, index_vars, hir_vars,
                 match_vars, check_vars, span_vars, codegen_vars>>

----------------------------------------------------------------------------
(* Lowering of match expressions: convert_match_expr                       *)

\* what the conversion of the scrutinee or of a clause came to: an error, or
\* the type of the expression
Converted(ty) == [err |-> FALSE, ty |-> ty]
ConvertFailed == [err |-> TRUE, ty |-> NoTy]

\* a clause of the match expression: its pattern, what the conversion of its
\* body comes to, and the number of match expressions nested in the body, each
\* of which takes one name from generate_lvar_name when it is converted
AstMatchClause(pat, body, nested) ==
  [pat |-> pat, err |-> body.err, ty |-> body.ty, nested |-> nested]

\* convert_match_clause: the components of the pattern matched against
\* value, then the body
convert_match_clause(d, consts, value, c) ==
  LET clause(r) ==
        IF r.err # "none" THEN [err |-> r.err, clause |-> <<>>]
        ELSE IF c.err THEN [err |-> "Error", clause |-> <<>>]
        ELSE [err |-> "none",
              clause |-> MatchClause(r.components,
                                     HirExpressions(c.ty, "exprs", c.ty), <<>>)]
  IN  clause(convert_match(d, consts, value, c.pat))

NoMatch == [err |-> "-"]
MatchFailed(err, n, names) == [err |-> err, gensym_ct |-> n, names |-> names]

\* k calls of generate_lvar_name in a row from the counter n on: the names
\* returned and the counter after the last
RECURSIVE generated_names(_, _, _)
generated_names(prefix, n, k) ==
  IF k = 0 THEN [names |-> <<>>, gensym_ct |-> n]
  ELSE LET rest(g, r) == [names |-> <<g.name>> \o r.names,
                          gensym_ct |-> r.gensym_ct]
           after(g) == rest(g, generated_names(prefix, g.gensym_ct, k - 1))
       IN  after(generate_lvar_name(prefix, n))

\* the number of names the bodies of the first k clauses take
RECURSIVE nested_upto(_, _)
nested_upto(ast_clauses, k) ==
  IF k = 0 THEN 0 ELSE nested_upto(ast_clauses, k - 1) + ast_clauses[k].nested

\* the expression the scrutinee was converted to
cond_expr_of(input) == HirExpression(input.cond.ty, [op |-> "scrutinee"])

\* Hir::lvar_assign
Hir_lvar_assign(name, rhs) == [name |-> name, ty |-> rhs.ty, rhs |-> rhs]

\* convert_match_expr
convert_match_expr(d, consts, n, input) ==
  IF input.cond.err THEN MatchFailed("Error", n, <<>>)
  ELSE
    LET tmp == generate_lvar_name("expr", n)
        tmp_ref == Hir_lvar_ref(input.cond.ty, tmp.name)
        ast_clauses == input.clauses
        converted == [i \in 1..Len(ast_clauses) |->
                        convert_match_clause(d, consts, tmp_ref, ast_clauses[i])]
        failing == {i \in 1..Len(ast_clauses) : converted[i].err # "none"}
        first_failing == CHOOSE i \in failing : \A j \in failing : i <= j
        taken(k) == generated_names("expr", tmp.gensym_ct,
                                    nested_upto(ast_clauses, k))
        clauses == [i \in 1..Len(ast_clauses) |-> converted[i].clause]
        r == calc_result_ty(d, clauses, input.debug_assertions)
        failed(err, g) ==
          MatchFailed(err, g.gensym_ct, <<tmp.name>> \o g.names)
        lowered(g) ==
          [err |-> "none", gensym_ct |-> g.gensym_ct,
           names |-> <<tmp.name>> \o g.names, ty |-> r.ty,
           cond_assign |-> Hir_lvar_assign(tmp.name, cond_expr_of(input)),
           clauses |-> Append(r.clauses, PanicClause),
           lvars |-> <<[name |-> tmp.name, ty |-> input.cond.ty]>>]
    IN  IF failing # {}
        THEN failed(converted[first_failing].err, taken(first_failing - 1))
        ELSE IF r.err # "none" THEN failed(r.err, taken(Len(ast_clauses)))
        ELSE lowered(taken(Len(ast_clauses)))

\* the types of the clause bodies
BodyTypes ==
  {raw("A"), raw("B"), raw("C"), raw("M"), raw("Object"), raw("Void"),
   raw("Never")}
ClauseInputs ==
  {AstMatchClause(VariablePattern("_"), body, 0) :
     body \in {Converted(ty) : ty \in BodyTypes} \cup {ConvertFailed}}
ClauseLists ==
  UNION {[1..n -> ClauseInputs] : n \in 0..MaxClauses}

NoMatchInput == [cond |-> ConvertFailed, clauses |-> <<>>, debug_assertions |-> FALSE,
                 given |-> FALSE]
\* the scrutinee, the clauses, and whether the build checks debug_assert!
MatchInputs ==
  [cond : {Converted(raw("A")), ConvertFailed}, clauses : ClauseLists,
   debug_assertions : BOOLEAN, given : {TRUE}]

\* a call of convert_match_expr
ConvertMatchExpr ==
  /\ match_input.given
  /\ match_result = NoMatch
  /\ LET r == convert_match_expr(sk_types, PatternConsts, gensym_ct, match_input)
     IN  /\ match_result' = r
         /\ gensym_ct' = r.gensym_ct
         /\ lvar_names' = lvar_names \o r.names
  /\ UNCHANGED <<match_input, resolve_vars, index_vars, hir_vars, sk_types, pattern_vars, check_vars, span_vars, codegen_vars>>

\* the most names generate_lvar_name returns in one compilation
MaxGensym == 4

\* the match expressions of a compilation that holds several: a scrutinee of
\* the type E<A>, A or Int, up to two clauses
ScrutineePatterns ==
  {VariablePattern("x"), VariablePattern("_"), IntegerLiteralPattern("1"),
   ExtractorPattern(<<"E", "Some">>, <<VariablePattern("y")>>),
   ExtractorPattern(<<"E", "None">>, <<>>),
   ExtractorPattern(<<"A">>, <<VariablePattern("y"), IntegerLiteralPattern("1")>>)}
ScrutineeClauses ==
  {AstMatchClause(pat, Converted(raw("A")), nested) :
     pat \in ScrutineePatterns, nested \in 0..1}
ScrutineeInputs ==
  [cond : {Converted(nonmeta(<<"E">>, <<raw("A")>>)), Converted(raw("A")),
           Converted(raw("Int"))},
   clauses : UNION {[1..n -> ScrutineeClauses] : n \in 1..2},
   debug_assertions : {TRUE}, given : {TRUE}]

\* convert_expr comes to the next match expression of the program
NextMatchExpr ==
  /\ match_result # NoMatch
  /\ match_result.err = "none"
  /\ gensym_ct < MaxGensym
  /\ match_input' \in ScrutineeInputs
  /\ match_result' = NoMatch
  /\ UNCHANGED <<gensym_ct, lvar_names, resolve_vars, index_vars, hir_vars, sk_types, pattern_vars, check_vars, span_vars, codegen_vars>>

----------------------------------------------------------------------------
(* Type checks: check_return_value, check_method_args                      *)

Accepted == [err |-> "none", examined |-> 0]
Rejected(n) == [err |-> "TypeError", examined |-> n]

\* TermTy::equals_to: structural equality
equals_to(ty1, ty2) == ty1 = ty2

\* check_return_value with the reference compared to the whole return type
\* only: no branch for a Void return type
check_return_value_void_checked(d, sig, ty) ==
  IF sig.ret_ty.tag = "para" /\ equals_to(ty, sig.ret_ty) THEN Accepted
  ELSE IF conforms(d, ty, IF sig.ret_ty.tag = "para"
                          THEN lower_bound(sig.ret_ty) ELSE sig.ret_ty)
  THEN Accepted
  ELSE Rejected(0)

\* check_return_value
check_return_value(d, sig, ty) ==
  IF is_void_type(sig.ret_ty) THEN Accepted
  ELSE IF sig.ret_ty.tag = "para" /\ equals_to(ty, sig.ret_ty) THEN Accepted
  ELSE IF conforms(d, ty, IF sig.ret_ty.tag = "para"
                          THEN lower_bound(sig.ret_ty) ELSE sig.ret_ty)
  THEN Accepted
  ELSE Rejected(0)

\* check_return_arg_type that accepts the declared return type only
check_return_arg_type_equal_only(d, return_arg_ty, method_sig) ==
  IF return_arg_ty = method_sig.ret_ty THEN Accepted ELSE Rejected(0)

\* check_return_arg_type
check_return_arg_type(d, return_arg_ty, method_sig) ==
  IF conforms(d, return_arg_ty, method_sig.ret_ty) THEN Accepted
  ELSE Rejected(0)

\* check_method_arity
check_method_arity(sig, arg_hirs) == Len(sig.params) = Len(arg_hirs)

\* MethodCallInf3 of a call without inference
NoInf == [given |-> FALSE, solved_method_arg_tys |-> <<>>]
MethodCallInf3(tys) == [given |-> TRUE, solved_method_arg_tys |-> tys]

\* check_arg_type that takes the declared type whatever was inferred
check_arg_type_declared_only(d, arg_hir, param, inf, i) ==
  conforms(d, arg_hir.ty, param.ty)

\* check_arg_type
check_arg_type(d, arg_hir, param, inf, i) ==
  conforms(d, arg_hir.ty,
           IF inf.given THEN inf.solved_method_arg_tys[i] ELSE param.ty)

\* check_arg_types: the loop from the i-th argument on; the result counts
\* the arguments whose type was examined
RECURSIVE check_arg_types_from(_, _, _, _, _)
check_arg_types_from(d, sig, arg_hirs, inf, i) ==
  IF i > Len(sig.params) THEN [err |-> "none", examined |-> i - 1]
  ELSE IF check_arg_type(d, arg_hirs[i], sig.params[i], inf, i)
  THEN check_arg_types_from(d, sig, arg_hirs, inf, i + 1)
  ELSE Rejected(i)

check_arg_types(d, sig, arg_hirs, inf) ==
  check_arg_types_from(d, sig, arg_hirs, inf, 1)

\* check_method_args
check_method_args(d, sig, arg_hirs, inf) ==
  IF ~check_method_arity(sig, arg_hirs) THEN Rejected(0)
  ELSE check_arg_types(d, sig, arg_hirs, inf)

\* the return types and the types of the bodies checked against them
ReturnTypes ==
  {raw("Object"), raw("A"), raw("B"), raw("C"), raw("Void"), raw("Never"),
   raw("Int"), nonmeta(<<"G">>, <<raw("A")>>),
   nonmeta(<<"E", "Some">>, <<raw("A")>>), nonmeta(<<"E">>, <<raw("A")>>),
   typaram_ref("T", "Class", 0), typaram_ref("T", "Method", 0),
   typaram_ref("U", "Method", 1)}

\* the most parameters of a method called
MaxArgs == 2

ParamTypes == {raw("Object"), raw("A"), typaram_ref("T", "Method", 0)}
ArgTypes == {raw("Object"), raw("A"), raw("B")}

ParamLists ==
  UNION {[1..n -> {[name |-> "p", ty |-> ty] : ty \in ParamTypes}] :
           n \in 0..MaxArgs}
ArgLists ==
  UNION {[1..n -> {Hir_lvar_ref(ty, "a") : ty \in ArgTypes}] : n \in 0..MaxArgs}

\* the results of method-call inference for n parameters
Infs(n) == {NoInf} \cup {MethodCallInf3(tys) : tys \in [1..n -> ArgTypes]}

sig_of(params, ret_ty) ==
  MethodSignature(method_fullname(<<"A">>, "m"), ret_ty, params, <<>>)

\* the calls of the checks the model makes
ReturnQuery(ret_ty, ty) ==
  [op |-> "check_return_value", sig |-> sig_of(<<>>, ret_ty), ty |-> ty,
   arg_hirs |-> <<>>, inf |-> NoInf]
ReturnArgQuery(ret_ty, return_arg_ty) ==
  [op |-> "check_return_arg_type", sig |-> sig_of(<<>>, ret_ty),
   ty |-> return_arg_ty, arg_hirs |-> <<>>, inf |-> NoInf]
ArgsQuery(params, arg_hirs, inf) ==
  [op |-> "check_method_args", sig |-> sig_of(params, raw("Void")),
   ty |-> NoTy, arg_hirs |-> arg_hirs, inf |-> inf]

\* a call of check_return_value
CheckReturnValue ==
  /\ tc_query.op = "check_return_value"
  /\ tc_result = NoResult
  /\ tc_result' = check_return_value(sk_types, tc_query.sig, tc_query.ty)
  /\ UNCHANGED <<tc_query, sk_types, resolve_vars, index_vars, hir_vars,
                 match_vars, pattern_vars, span_vars, codegen_vars>>

\* a call of check_return_arg_type
CheckReturnArgType ==
  /\ tc_query.op = "check_return_arg_type"
  /\ tc_result = NoResult
  /\ tc_result' = check_return_arg_type(sk_types, tc_query.ty, tc_query.sig)
  /\ UNCHANGED <<tc_query, sk_types, resolve_vars, index_vars, hir_vars,
                 match_vars, pattern_vars, span_vars, codegen_vars>>

\* a call of check_method_args
CheckMethodArgs ==
  /\ tc_query.op = "check_method_args"
  /\ tc_result = NoResult
  /\ tc_result' = check_method_args(sk_types, tc_query.sig, tc_query.arg_hirs,
                                    tc_query.inf)
  /\ UNCHANGED <<tc_query, sk_types, resolve_vars, index_vars, hir_vars,
                 match_vars, pattern_vars, span_vars, codegen_vars>>

----------------------------------------------------------------------------
(* Source locations: LocationSpan (lib/shiika_ast/src/location.rs)         *)

\* the last byte offset of a source file
MaxPos == 3

Location(line, col, pos) == [line |-> line, col |-> col, pos |-> pos]
LocationSpan(filepath, begin, end) ==
  [filepath |-> filepath, begin |-> begin, end |-> end]

\* LocationSpan::internal and LocationSpan::todo
LocationSpan_internal ==
  LocationSpan("<<internal>>", Location(0, 0, 0), Location(0, 0, 0))
LocationSpan_todo == LocationSpan("", Location(0, 0, 0), Location(0, 0, 0))

\* What a call of new or merge hands to its caller: both return a
\* LocationSpan, not a Result, so the only outcome is "returned"; bug tells
\* whether the "[BUG] invalid LocationSpan" line was printed.
SpanReturned(span, bug) == [outcome |-> "returned", span |-> span, bug |-> bug]

\* new without the comparison of the two positions
LocationSpan_new_unchecked(filepath, begin, end) ==
  SpanReturned(LocationSpan(filepath, begin, end), FALSE)

\* LocationSpan::new
LocationSpan_new(filepath, begin, end) ==
  IF begin.pos > end.pos
  THEN SpanReturned(LocationSpan_internal, TRUE)
  ELSE SpanReturned(LocationSpan(filepath, begin, end), FALSE)

\* LocationSpan::merge
LocationSpan_merge(begin, end) ==
  IF begin.filepath # end.filepath
  THEN SpanReturned(LocationSpan_internal, TRUE)
  ELSE LocationSpan_new(begin.filepath, begin.begin, end.end)

\* the locations of a source file whose lines are two bytes long
SourceFiles == {"a.sk", "b.sk"}
Locations == {Location(1 + (p \div 2), p % 2, p) : p \in 0..MaxPos}

\* the spans a compilation holds: those new returned, and the two sentinels
KnownSpans ==
  {LocationSpan_new(f, b, e).span : f \in SourceFiles, b \in Locations, e \in Locations}
    \cup {LocationSpan_internal, LocationSpan_todo}

NewQuery(filepath, begin, end) ==
  [op |-> "new", filepath |-> filepath, begin |-> begin, end |-> end]
MergeQuery(begin, end) ==
  [op |-> "merge", filepath |-> begin.filepath, begin |-> begin, end |-> end]

\* a call of LocationSpan::new
LocationSpanNew ==
  /\ span_query.op = "new"
  /\ span_result = NoResult
  /\ span_result' = LocationSpan_new(span_query.filepath, span_query.begin,
                                     span_query.end)
  /\ UNCHANGED <<span_query, sk_types, resolve_vars, index_vars, hir_vars,
                 match_vars, pattern_vars, check_vars, codegen_vars>>

\* a call of LocationSpan::merge
LocationSpanMerge ==
  /\ span_query.op = "merge"
  /\ span_result = NoResult
  /\ span_result' = LocationSpan_merge(span_query.begin, span_query.end)
  /\ UNCHANGED <<span_query, sk_types, resolve_vars, index_vars, hir_vars,
                 match_vars, pattern_vars, check_vars, codegen_vars>>

----------------------------------------------------------------------------
(* Code generation: init_constants (lib/skc_codegen/src/lib.rs)            *)

\* the most constants of the main package
MaxConsts == 2

\* a function of the LLVM module: of the kind "init" the initializer of the
\* constant of that name (const_initialize_func_name), of the kind "fn" any
\* other function
llvm_func(kind, name) == [kind |-> kind, name |-> name]
const_initialize_func(name) == llvm_func("init", name)
init_constants_func(package_name) ==
  llvm_func("fn", <<package_name, "init_constants">>)

\* build_call
build_call(func) == [op |-> "call", func |-> func]

basic_classes ==
  << <<"Metaclass">>, <<"Class">>, <<"Shiika", "Internal", "Ptr">> >>
is_basic_class(fullname) ==
  \E i \in 1..Len(basic_classes) : basic_classes[i] = fullname
not_basic_class(fullname) == ~is_basic_class(fullname)

calls_of(names) == [i \in 1..Len(names) |-> build_call(const_initialize_func(names[i]))]

\* gen_init_constants with a call for every entry of const_inits
gen_init_constants_of_every_entry(const_inits_, is_main) ==
  (IF is_main THEN <<build_call(init_constants_func("builtin"))>> ELSE <<>>)
    \o (IF ~is_main THEN calls_of(basic_classes) ELSE <<>>)
    \o calls_of(const_inits_)

\* gen_init_constants: the body of the function generated
gen_init_constants(const_inits_, is_main) ==
  (IF is_main THEN <<build_call(init_constants_func("builtin"))>> ELSE <<>>)
    \o (IF ~is_main THEN calls_of(basic_classes) ELSE <<>>)
    \o calls_of(SelectSeq(const_inits_, not_basic_class))

\* gen_main: the body of main
gen_main ==
  << build_call(llvm_func("fn", <<"GC_init">>)),
     build_call(init_constants_func("main")),
     build_call(llvm_func("fn", <<"user_main">>)) >>

\* the const_inits of the builtin package: its classes hold the three basic
\* classes, in the order the dictionary lists them
BuiltinConsts ==
  {<<"Metaclass">>, <<"Class">>, <<"Shiika", "Internal", "Ptr">>, <<"Object">>}
BuiltinConstInits ==
  {q \in [1..Cardinality(BuiltinConsts) -> BuiltinConsts] :
     \A i, j \in 1..Len(q) : i # j => q[i] # q[j]}

\* the const_inits of the main package
MainConsts == {<<"X">>, <<"Y">>, <<"Class">>}
MainConstInits == UNION {[1..n -> MainConsts] : n \in 0..MaxConsts}

GenQuery(builtin, main) == [op |-> "gen_program", builtin |-> builtin, main |-> main]

Generated(func) == func \in DOMAIN init_fns
StackFrame(func, pc) == [func |-> func, pc |-> pc]

\* gen_program of the builtin package
GenProgramBuiltin ==
  /\ gen_query # NoQuery
  /\ ~Generated(init_constants_func("builtin"))
  /\ init_fns' = (init_constants_func("builtin")
                    :> gen_init_constants(gen_query.builtin, FALSE)) @@ init_fns
  /\ UNCHANGED <<gen_query, call_stack, init_calls, sk_types, resolve_vars,
                 index_vars, hir_vars, match_vars, pattern_vars, check_vars,
                 span_vars>>

\* gen_program of the main package, which imports the builtin package
GenProgramMain ==
  /\ Generated(init_constants_func("builtin"))
  /\ ~Generated(init_constants_func("main"))
  /\ init_fns' = (init_constants_func("main")
                    :> gen_init_constants(gen_query.main, TRUE))
                 @@ (llvm_func("fn", <<"main">>) :> gen_main) @@ init_fns
  /\ UNCHANGED <<gen_query, call_stack, init_calls, sk_types, resolve_vars,
                 index_vars, hir_vars, match_vars, pattern_vars, check_vars,
                 span_vars>>

\* the program generated is started
StartMain ==
  /\ Generated(llvm_func("fn", <<"main">>))
  /\ call_stack = <<>>
  /\ call_stack' = <<StackFrame(llvm_func("fn", <<"main">>), 1)>>
  /\ UNCHANGED <<gen_query, init_fns, init_calls, sk_types, resolve_vars,
                 index_vars, hir_vars, match_vars, pattern_vars, check_vars,
                 span_vars>>

running == call_stack[Len(call_stack)]
at_call ==
  /\ call_stack # <<>>
  /\ running.pc <= Len(init_fns[running.func])
callee == init_fns[running.func][running.pc].func
advance == [call_stack EXCEPT ![Len(call_stack)].pc = @ + 1]

\* the call of a generated function: its body is entered
CallGenerated ==
  /\ at_call
  /\ Generated(callee)
  /\ call_stack' = Append(call_stack, StackFrame(callee, 1))
  /\ UNCHANGED <<gen_query, init_fns, init_calls, sk_types, resolve_vars,
                 index_vars, hir_vars, match_vars, pattern_vars, check_vars,
                 span_vars>>

\* the call of the initializer of a constant: the constant is initialized
CallInitializer ==
  /\ at_call
  /\ callee.kind = "init"
  /\ init_calls' = Append(init_calls, callee.name)
  /\ call_stack' = advance
  /\ UNCHANGED <<gen_query, init_fns, sk_types, resolve_vars,
                 index_vars, hir_vars, match_vars, pattern_vars, check_vars,
                 span_vars>>

\* the call of GC_init or user_main
CallOther ==
  /\ at_call
  /\ callee.kind = "fn"
  /\ ~Generated(callee)
  /\ call_stack' = advance
  /\ UNCHANGED <<gen_query, init_fns, init_calls, sk_types, resolve_vars,
                 index_vars, hir_vars, match_vars, pattern_vars, check_vars,
                 span_vars>>

\* build_return of a function called by another
ReturnToCaller ==
  /\ Len(call_stack) > 1
  /\ running.pc > Len(init_fns[running.func])
  /\ call_stack' = [SubSeq(call_stack, 1, Len(call_stack) - 1)
                      EXCEPT ![Len(call_stack) - 1].pc = @ + 1]
  /\ UNCHANGED <<gen_query, init_fns, init_calls, sk_types, resolve_vars,
                 index_vars, hir_vars, match_vars, pattern_vars, check_vars,
                 span_vars>>

----------------------------------------------------------------------------
(* Specifications                                                          *)

IdleResolve == rt_query = NoQuery /\ rt_result = NoResult
IdlePattern == pat_query = NoQuery /\ pat_result = NoResult
IdleCheck == tc_query = NoQuery /\ tc_result = NoResult
IdleSpan == span_query = NoQuery /\ span_result = NoResult
IdleCodegen ==
  /\ gen_query = NoQuery
  /\ init_fns = <<>>
  /\ call_stack = <<>>
  /\ init_calls = <<>>
IdleIndex ==
  /\ idx_phase = "idle"
  /\ last_call = NoCall
  /\ indexed = {}
  /\ n_calls = 0
IdleHir ==
  /\ ctx_stack = <<>>
  /\ calls = <<>>
  /\ hir_status = "idle"
  /\ returned = NoReturn
  /\ const_inits = <<>>

IdleMatch ==
  /\ match_input = NoMatchInput
  /\ match_result = NoMatch
  /\ gensym_ct = 0
  /\ lvar_names = <<>>
  /\ IdlePattern
  /\ IdleCheck

InitResolve ==
  /\ IdleSpan
  /\ IdleCodegen
  /\ IdleMatch
  /\ rt_query \in Queries
  /\ rt_result = NoResult
  /\ sk_types = CoreDict
  /\ IdleIndex
  /\ IdleHir
NextResolve == ResolveTypename \/ ResolveSimpleTypename
SpecResolve == InitResolve /\ [][NextResolve]_vars

InitIndex ==
  /\ IdleSpan
  /\ IdleCodegen
  /\ IdleMatch
  /\ IdleResolve
  /\ IdleHir
  /\ sk_types = CoreDict
  /\ idx_phase = "indexing"
  /\ last_call = NoCall
  /\ indexed = {}
  /\ n_calls = 0
NextIndex == IndexClass \/ IndexModule \/ IndexEnum \/ IndexConst \/ IndexOther
SpecIndex == InitIndex /\ [][NextIndex]_vars

\* make_hir: the dictionary is the one class_dict::create built by indexing
\* the program; HirMaker::new starts with the toplevel frame
InitHir ==
  /\ IdleSpan
  /\ IdleCodegen
  /\ IdleMatch
  /\ IdleResolve
  /\ IdleIndex
  /\ sk_types = IndexedDict
  /\ ctx_stack = <<Frame("toplevel", <<>>)>>
  /\ calls = <<Activation("toplevel", <<>>, "items", NoDef, 1)>>
  /\ hir_status = "lowering"
  /\ returned = NoReturn
  /\ const_inits = <<>>
NextHir ==
  \/ ProcessClassDef \/ ConstsDone \/ CreateInitialize \/ SkipInitialize
  \/ DefineIvars \/ CreateNew \/ ConvertMethodDef \/ SkipDef
  \/ ProcessEnumDef \/ ClassReturn \/ MethodReturn \/ ConvertBlock
  \/ CompileBody \/ BodyReturn \/ ToplevelItem \/ Fail \/ ReturnErr
  \/ ToplevelErr \/ ToplevelDone \/ ExtractHir
SpecHir == InitHir /\ [][NextHir]_vars

InitMatch ==
  /\ IdleSpan
  /\ IdleCodegen
  /\ IdleResolve
  /\ IdleIndex
  /\ IdleHir
  /\ sk_types = MatchDict
  /\ match_input \in MatchInputs
  /\ match_result = NoMatch
  /\ gensym_ct = 0
  /\ lvar_names = <<>>
  /\ IdlePattern
  /\ IdleCheck
NextMatch == ConvertMatchExpr
SpecMatch == InitMatch /\ [][NextMatch]_vars

\* a compilation with several match expressions, one after the other
InitScrutinee ==
  /\ IdleSpan
  /\ IdleCodegen
  /\ IdleResolve
  /\ IdleIndex
  /\ IdleHir
  /\ IdlePattern
  /\ IdleCheck
  /\ sk_types = PatternDict
  /\ match_input \in ScrutineeInputs
  /\ match_result = NoMatch
  /\ gensym_ct = 0
  /\ lvar_names = <<>>
NextScrutinee == ConvertMatchExpr \/ NextMatchExpr
SpecScrutinee == InitScrutinee /\ [][NextScrutinee]_vars

InitPattern ==
  /\ IdleSpan
  /\ IdleCodegen
  /\ IdleResolve
  /\ IdleIndex
  /\ IdleHir
  /\ match_input = NoMatchInput
  /\ match_result = NoMatch
  /\ gensym_ct = 0
  /\ lvar_names = <<>>
  /\ IdleCheck
  /\ sk_types = PatternDict
  /\ pat_query \in PatternQueries
  /\ pat_result = NoResult
NextPattern == ConvertMatch
SpecPattern == InitPattern /\ [][NextPattern]_vars

InitCheck ==
  /\ IdleSpan
  /\ IdleCodegen
  /\ IdleResolve
  /\ IdleIndex
  /\ IdleHir
  /\ match_input = NoMatchInput
  /\ match_result = NoMatch
  /\ gensym_ct = 0
  /\ lvar_names = <<>>
  /\ IdlePattern
  /\ sk_types = PatternDict
  /\ \/ \E ret_ty \in ReturnTypes, ty \in ReturnTypes :
          tc_query = ReturnQuery(ret_ty, ty)
     \/ \E ret_ty \in ReturnTypes, ty \in ReturnTypes :
          tc_query = ReturnArgQuery(ret_ty, ty)
     \/ \E params \in ParamLists, arg_hirs \in ArgLists :
          \E inf \in Infs(Len(params)) :
            tc_query = ArgsQuery(params, arg_hirs, inf)
  /\ tc_result = NoResult
NextCheck == CheckReturnValue \/ CheckReturnArgType \/ CheckMethodArgs
SpecCheck == InitCheck /\ [][NextCheck]_vars

InitSpan ==
  /\ IdleResolve
  /\ IdleIndex
  /\ IdleHir
  /\ IdleMatch
  /\ IdleCodegen
  /\ sk_types = CoreDict
  /\ \/ \E f \in SourceFiles, b \in Locations, e \in Locations :
          span_query = NewQuery(f, b, e)
     \/ \E b \in KnownSpans, e \in KnownSpans : span_query = MergeQuery(b, e)
  /\ span_result = NoResult
NextSpan == LocationSpanNew \/ LocationSpanMerge
SpecSpan == InitSpan /\ [][NextSpan]_vars

InitCodegen ==
  /\ IdleResolve
  /\ IdleIndex
  /\ IdleHir
  /\ IdleMatch
  /\ IdleSpan
  /\ sk_types = CoreDict
  /\ \E builtin \in BuiltinConstInits, main \in MainConstInits :
       gen_query = GenQuery(builtin, main)
  /\ init_fns = <<>>
  /\ call_stack = <<>>
  /\ init_calls = <<>>
NextCodegen ==
  \/ GenProgramBuiltin \/ GenProgramMain \/ StartMain \/ CallGenerated
  \/ CallInitializer \/ CallOther \/ ReturnToCaller
SpecCodegen == InitCodegen /\ [][NextCodegen]_vars

----------------------------------------------------------------------------
(* Properties of the resolver (SpecResolve)                                *)

Called == rt_result # NoResult

\* the prefix lengths j for which head(j) ++ query is a known class
known_prefixes(q) ==
  {j \in 0..Len(q.ns) : head(q.ns, j) \o q.name.names \in DOMAIN q.ci}

\* C3: a single-segment name without type arguments that is the name of a
\* class type parameter and of a method type parameter resolves to the
\* method-bound reference, with the index of the method parameter
C3_MethodTyparamShadowsClassTyparam ==
  ( /\ rt_query.op = "_resolve_typename"
    /\ Called
    /\ Len(rt_query.name.names) = 1
    /\ Len(rt_query.name.args) = 0
    /\ position(rt_query.class_typarams, rt_query.name.names[1]) >= 0
    /\ position(rt_query.method_typarams, rt_query.name.names[1]) >= 0 )
  => /\ rt_result.err = "none"
     /\ rt_result.ty =
          typaram_ref(rt_query.name.names[1], "Method",
                      position(rt_query.method_typarams, rt_query.name.names[1]))

\* C4: _resolve_simple_typename returns the candidate head(j) ++ query with
\* the longest prefix j of the namespace that is a known class, with the
\* type parameters of that class, and a NameError when no candidate is known
C4_InnermostCandidateWins ==
  (rt_query.op = "_resolve_simple_typename" /\ Called)
  => LET known == known_prefixes(rt_query)
     IN  IF known = {}
         THEN rt_result.err = "NameError"
         ELSE LET j == CHOOSE j \in known : \A i \in known : i <= j
                  cand == head(rt_query.ns, j) \o rt_query.name.names
              IN  /\ rt_result.err = "none"
                  /\ rt_result.resolved = cand
                  /\ rt_result.typarams = rt_query.ci[cand]

\* a query with an inner and an outer declaration of the name, answered with
\* the inner one
C4_Witness ==
  /\ rt_query.op = "_resolve_simple_typename"
  /\ Called
  /\ Cardinality(known_prefixes(rt_query)) >= 2
  /\ rt_result.err = "none"
  /\ Len(rt_result.resolved) > Len(rt_query.name.names)

----------------------------------------------------------------------------
(* Properties of the indexing pass (SpecIndex)                             *)

IsIndexCall == last_call.op \in {"index_class", "index_module", "index_enum"}

\* the i-th name of the supers list of the last call names a registered
\* type of that kind (the name as written, whatever its type arguments)
names_kind(i, kind) ==
  LET b == _resolve_simple_typename(ProgramIndex, <<>>,
                                    last_call.def.supers[i].names)
  IN  /\ b.err = "none"
      /\ find_type(last_call.before, b.resolved).kind = kind

names_final(i) ==
  /\ names_kind(i, "class")
  /\ last_call.before[last_call.def.supers[i].names].is_final = "true"

\* the names of the supers list up to the i-th resolve to types
resolves_upto(i) ==
  \A j \in 1..i :
    _resolve_typename(ProgramIndex, <<>>, last_call.def.typarams, <<>>,
                      last_call.def.supers[j]).err = "none"

\* the error of the first name of the supers list that does not resolve
first_unresolved_err ==
  first_err([j \in 1..Len(last_call.def.supers) |->
               _resolve_typename(ProgramIndex, <<>>, last_call.def.typarams,
                                 <<>>, last_call.def.supers[j])])

\* C5: indexing a definition again whose type is registered succeeds and
\* leaves the class dictionary as it was
C5_ReindexIsNoOp ==
  ( /\ IsIndexCall
    /\ last_call.reindex
    /\ <<last_call.def.name>> \in DOMAIN last_call.before )
  => last_call.err = "none" /\ sk_types = last_call.before

\* C8 as stated: index_class of a class whose supers list names a final
\* class fails with a ProgramError and registers nothing
C8_FinalSuperIsProgramError ==
  ( /\ last_call.op = "index_class"
    /\ \E i \in 1..Len(last_call.def.supers) : names_final(i) )
  => last_call.err = "ProgramError" /\ sk_types = last_call.before

\* C8 amended: index_class of a class whose supers list names a final class
\* fails and registers nothing; the error is a ProgramError when the names
\* up to the first final class resolve, and is otherwise a ProgramError or
\* the NameError or TypeError of the first name that does not resolve
C8_FinalSuperFails ==
  ( /\ last_call.op = "index_class"
    /\ \E i \in 1..Len(last_call.def.supers) : names_final(i) )
  => LET i == CHOOSE i \in 1..Len(last_call.def.supers) :
                 /\ names_final(i)
                 /\ \A j \in 1..(i-1) : ~names_final(j)
     IN  /\ sk_types = last_call.before
         /\ last_call.err \in {"ProgramError", "NameError", "TypeError"}
         /\ resolves_upto(i) => last_call.err = "ProgramError"
         /\ last_call.err # "ProgramError"
              => last_call.err = first_unresolved_err

\* a class that names a final enum as its only super is rejected
C8_Witness ==
  /\ last_call.op = "index_class"
  /\ Len(last_call.def.supers) = 1
  /\ names_final(1)
  /\ last_call.err = "ProgramError"
  /\ sk_types = last_call.before

two_classes ==
  \E i, j \in 1..Len(last_call.def.supers) :
    i < j /\ names_kind(i, "class") /\ names_kind(j, "class")

class_after_module ==
  \E i, j \in 1..Len(last_call.def.supers) :
    i < j /\ names_kind(i, "module") /\ names_kind(j, "class")

\* C9 as stated: more than one class in the supers list, or a class after a
\* module, is a ProgramError and the class is not registered
C9_TwoSuperclassesIsProgramError ==
  (last_call.op = "index_class" /\ (two_classes \/ class_after_module))
  => last_call.err = "ProgramError" /\ sk_types = last_call.before

\* C9 amended: such a declaration fails and registers nothing; the error is
\* a ProgramError when every name of the list resolves, and otherwise the
\* ProgramError of an earlier check or the NameError or TypeError of the
\* first name that does not resolve
C9_TwoSuperclassesFail ==
  (last_call.op = "index_class" /\ (two_classes \/ class_after_module))
  => /\ sk_types = last_call.before
     /\ last_call.err \in {"ProgramError", "NameError", "TypeError"}
     /\ resolves_upto(Len(last_call.def.supers))
          => last_call.err = "ProgramError"
     /\ last_call.err # "ProgramError" => last_call.err = first_unresolved_err

\* a declaration with two superclasses and one with a class after a module
C9_Witness ==
  /\ last_call.op = "index_class"
  /\ two_classes \/ class_after_module
  /\ resolves_upto(Len(last_call.def.supers))
  /\ ~(\E i \in 1..Len(last_call.def.supers) : names_final(i))
  /\ last_call.err = "ProgramError"

is_meta_key(k) == Len(k) > 0 /\ k[1] = "Meta:"

\* following superclass links from k reaches Object without a repeat
RECURSIVE reaches_object(_, _, _)
reaches_object(d, k, visited) ==
  IF k = <<"Object">> THEN TRUE
  ELSE IF k \in visited \/ k \notin DOMAIN d THEN FALSE
  ELSE IF d[k].kind # "class" \/ d[k].superclass = NoTy THEN FALSE
  ELSE reaches_object(d, erasure_fullname(d[k].superclass), visited \cup {k})

\* C10: after successful calls every non-meta type has a metaclass that is
\* meta and a subclass of Class, has a non-meta erasure, and the superclass
\* chain of every class ends at Object
C10_MetaclassAndSuperclassChain ==
  idx_phase = "indexing" =>
    \A k \in DOMAIN sk_types :
      /\ sk_types[k].erasure.is_meta = is_meta_key(k)
      /\ ~is_meta_key(k) =>
           /\ meta_name(k) \in DOMAIN sk_types
           /\ sk_types[meta_name(k)].kind = "class"
           /\ sk_types[meta_name(k)].erasure = Erasure(k, TRUE)
           /\ sk_types[meta_name(k)].superclass = raw("Class")
      /\ sk_types[k].kind = "class" => reaches_object(sk_types, k, {})

\* three declarations made a chain D < C < A < Object
C10_Witness ==
  /\ idx_phase = "indexing"
  /\ <<"D">> \in DOMAIN sk_types
  /\ sk_types[<<"D">>].superclass = raw("C")
  /\ sk_types[<<"C">>].superclass = raw("A")
  /\ meta_name(<<"D">>) \in DOMAIN sk_types

----------------------------------------------------------------------------
(* Properties of HIR construction (SpecHir)                                *)

\* C1: when an operation that pushed a frame returns, with a result or with
\* an error, the context stack is what it was when the operation was called
C1_StackRestoredOnEveryReturn ==
  returned # NoReturn => returned.after = returned.before

\* C2: at every point of the lowering the class dictionary is the one the
\* indexing pass left
C2_DictionaryFrozenDuringLowering ==
  hir_status \in {"lowering", "error", "failed", "done"}
    => sk_types = IndexedDict

----------------------------------------------------------------------------
(* Properties of the lowering of match expressions (SpecMatch)             *)

Lowered == match_result # NoMatch /\ match_result.err = "none"
user_clauses == SubSeq(match_result.clauses, 1, Len(match_result.clauses) - 1)

\* C6: a match expression convert_match_expr produced ends with the clause
\* that has no components and panics with "no matching clause found", and
\* every user clause whose body is not of type Never has a body of the
\* result type of the match
C6_PanicClauseLastAndBodiesOfResultType ==
  Lowered =>
    /\ Len(match_result.clauses) = Len(match_input.clauses) + 1
    /\ match_result.clauses[Len(match_result.clauses)] = PanicClause
    /\ \A i \in 1..Len(user_clauses) :
         ~is_never_type(user_clauses[i].body_hir.ty)
           => user_clauses[i].body_hir.ty = match_result.ty

\* a match with a Never clause and a clause that had to be bitcast
C6_Witness ==
  /\ Lowered
  /\ \E i \in 1..Len(user_clauses) : is_never_type(user_clauses[i].body_hir.ty)
  /\ \E i \in 1..Len(user_clauses) :
       /\ user_clauses[i].body_hir.node = "bitcast"
       /\ user_clauses[i].body_hir.from # match_result.ty

\* C7: a match expression without user clauses is lowered to a match whose
\* only clause is the panic clause, without error or assertion failure
C7_EmptyMatchIsLowered ==
  (match_result # NoMatch /\ ~match_input.cond.err /\ match_input.clauses = <<>>)
    => /\ match_result.err = "none"
       /\ match_result.clauses = <<PanicClause>>

\* the last call registered the class it declares for the first time
FirstRegistered ==
  /\ last_call.op = "index_class"
  /\ last_call.err = "none"
  /\ <<last_call.def.name>> \notin DOMAIN last_call.before

\* the parameters of the #initialize a class without its own inherits
inherited_params(d, superclass) ==
  specialized_initialize(lookup_method(d, superclass, "initialize").sig,
                         superclass).params

\* C11: a class other than Never registered for the first time gets a .new
\* on its metaclass that returns the instance type and takes the parameters
\* of the class's own #initialize, or without one those of the #initialize
\* of the nearest ancestor with the type arguments of the superclass put in;
\* Never gets no .new
C11_NewTakesInitializeParams ==
  FirstRegistered =>
    LET fullname == <<last_call.def.name>>
        sigs == sk_types[meta_name(fullname)].method_sigs
    IN  IF fullname = <<"Never">> THEN "new" \notin DOMAIN sigs
        ELSE /\ "new" \in DOMAIN sigs
             /\ sigs["new"].ret_ty =
                  return_type_of_new(fullname, last_call.def.typarams)
             /\ sigs["new"].params =
                  IF has_initializer(last_call.def)
                  THEN sk_types[fullname].method_sigs["initialize"].params
                  ELSE inherited_params(last_call.before,
                                        sk_types[fullname].superclass)

\* the last call merged a declaration into a registered class
Merged ==
  /\ last_call.op = "index_class"
  /\ last_call.err = "none"
  /\ <<last_call.def.name>> \in DOMAIN last_call.before

\* the signatures of the methods the body of the last declaration defines
declared_sigs ==
  index_defs_in_class(ProgramIndex, last_call.before, <<last_call.def.name>>,
                      <<last_call.def.name>>, last_call.def.typarams,
                      last_call.def.defs)

\* the map after holds the entries of sigs, and the entries of before under
\* every other name
merged_into(before, sigs, after) ==
  /\ DOMAIN after = DOMAIN before \cup DOMAIN sigs
  /\ \A m \in DOMAIN after :
       after[m] = IF m \in DOMAIN sigs THEN sigs[m] ELSE before[m]

kept_and_merged(old, now, old_meta, now_meta, decl) ==
  /\ now.superclass = old.superclass
  /\ now.typarams = old.typarams
  /\ now.ivars = old.ivars
  /\ now.is_final = old.is_final
  /\ now.const_is_obj = old.const_is_obj
  /\ merged_into(old.method_sigs, decl.instance_methods, now.method_sigs)
  /\ LET without_new(m) == [x \in DOMAIN m \ {"new"} |-> m[x]]
     IN  merged_into(without_new(old_meta.method_sigs),
                     without_new(decl.class_methods),
                     without_new(now_meta.method_sigs))
  /\ "new" \in DOMAIN old_meta.method_sigs
       /\ "new" \notin DOMAIN decl.class_methods
     => now_meta.method_sigs["new"] = old_meta.method_sigs["new"]
  /\ "new" \notin DOMAIN old_meta.method_sigs
       /\ last_call.def.name # "Never"
     => "new" \in DOMAIN now_meta.method_sigs

\* C12: index_class of a registered name leaves the superclass, the type
\* parameters, the instance variables, the finality and const_is_obj of the
\* class as they were, puts the instance-method and class-method signatures
\* of the declaration into the class and the metaclass, and installs .new
\* only on a metaclass that has no .new
C12_ReopenedClassIsMerged ==
  Merged =>
    kept_and_merged(last_call.before[<<last_call.def.name>>],
                    sk_types[<<last_call.def.name>>],
                    last_call.before[meta_name(<<last_call.def.name>>)],
                    sk_types[meta_name(<<last_call.def.name>>)],
                    declared_sigs)

\* class C reopened as C : A: the superclass stays Object and .new keeps
\* the empty parameter list although A#initialize takes a parameter
C12_Witness ==
  /\ Merged
  /\ last_call.def.name = "C"
  /\ last_call.def.supers = <<TN("A")>>
  /\ sk_types[<<"C">>].superclass = raw("Object")
  /\ "initialize" \in DOMAIN sk_types[<<"A">>].method_sigs
  /\ sk_types[<<"A">>].method_sigs["initialize"].params # <<>>
  /\ sk_types[meta_name(<<"C">>)].method_sigs["new"].params = <<>>

\* the class registered for case c of the enum E<typarams> is final, has E
\* as its superclass and the type arguments, type parameters and
\* const_is_obj of its kind
case_registered(d, E, typarams, c) ==
  /\ E \o <<c.name>> \in DOMAIN d
  /\ LET t == d[E \o <<c.name>>]
     IN  /\ t.kind = "class"
         /\ t.is_final = "true"
         /\ t.superclass.name = E
         /\ Len(t.superclass.args) = Len(typarams)
         /\ IF c.params = <<>>
            THEN /\ \A i \in 1..Len(typarams) :
                      t.superclass.args[i] = raw("Never")
                 /\ t.typarams = <<>>
                 /\ t.const_is_obj
            ELSE /\ \A i \in 1..Len(typarams) :
                      t.superclass.args[i] =
                        typaram_ref(typarams[i], "Class", i - 1)
                 /\ t.typarams = typarams
                 /\ ~t.const_is_obj

\* C13: index_enum registers the enum as a final class with superclass
\* Object and every case as a final class whose superclass is the enum: a
\* case without parameters has Never for every type argument of the
\* superclass, no type parameters and const_is_obj; a case with parameters
\* has the enum's type parameters as class-bound references for the type
\* arguments, the enum's type parameters and no const_is_obj
C13_EnumAndCasesRegistered ==
  (last_call.op = "index_enum" /\ last_call.err = "none") =>
    /\ <<last_call.def.name>> \in DOMAIN sk_types
    /\ sk_types[<<last_call.def.name>>].kind = "class"
    /\ sk_types[<<last_call.def.name>>].is_final = "true"
    /\ sk_types[<<last_call.def.name>>].superclass = raw("Object")
    /\ \A i \in 1..Len(last_call.def.cases) :
         case_registered(sk_types, <<last_call.def.name>>,
                         last_call.def.typarams, last_call.def.cases[i])

\* enum E<T> with the cases Some(v: T) and None has been indexed
C13_Witness ==
  /\ last_call.op = "index_enum"
  /\ last_call.err = "none"
  /\ last_call.def.name = "E"
  /\ sk_types[<<"E", "None">>].superclass = nonmeta(<<"E">>, <<raw("Never")>>)
  /\ sk_types[<<"E", "Some">>].superclass =
       nonmeta(<<"E">>, <<typaram_ref("T", "Class", 0)>>)
  /\ sk_types[<<"E", "Some">>].typarams = <<"T">>

\* the modules a registered class records as included: the SkClass that
\* add_new_class builds has no field for them
included_modules(sk_class) ==
  IF "includes" \in DOMAIN sk_class THEN sk_class.includes ELSE <<>>

\* what _resolve_supers made of the supers list of the last call
resolved_supers ==
  _resolve_supers(ProgramIndex, last_call.before, <<>>,
                  last_call.def.typarams, last_call.def.supers)

\* C14: after index_class of a class whose supers list names modules, the
\* registered class records these modules as its included modules, in the
\* order of the source
C14_IncludedModulesRecorded ==
  ( /\ last_call.op = "index_class"
    /\ last_call.err = "none"
    /\ resolved_supers.includes # <<>> )
  => included_modules(sk_types[<<last_call.def.name>>])
       = resolved_supers.includes

\* the i-th definition of the body of the last declaration is a method
\* whose signature the call has registered
is_method_def(i) ==
  /\ last_call.def.defs[i].kind \in {"imethod", "cmethod", "requirement"}
  /\ \A j \in (i+1)..Len(last_call.def.defs) :
       last_call.def.defs[j].kind = last_call.def.defs[i].kind
         => last_call.def.defs[j].name # last_call.def.defs[i].name

\* the signature registered for that definition
registered_sig(i) ==
  LET def == last_call.def.defs[i]
      fullname == <<last_call.def.name>>
  IN  IF def.kind = "imethod" THEN sk_types[fullname].method_sigs[def.name]
      ELSE IF def.kind = "cmethod"
      THEN sk_types[meta_name(fullname)].method_sigs[def.name]
      ELSE LET reqs == sk_types[fullname].requirements
           IN  reqs[CHOOSE k \in 1..Len(reqs) :
                      reqs[k].fullname.first_name = def.name]

\* a name of one segment without type arguments that is in the list
is_typaram_name(typ, typarams) ==
  /\ Len(typ.names) = 1
  /\ typ.args = <<>>
  /\ position(typarams, typ.names[1]) >= 0

\* typ is resolved to ty with the type parameters of the class and of the
\* method in scope
in_scope(typ, ty, class_typarams, method_typarams) ==
  /\ is_typaram_name(typ, class_typarams)
     => ty = typaram_ref(typ.names[1], "Class",
                         position(class_typarams, typ.names[1]))
  /\ is_typaram_name(typ, method_typarams)
       /\ ~is_typaram_name(typ, class_typarams)
     => ty = typaram_ref(typ.names[1], "Method",
                         position(method_typarams, typ.names[1]))

\* sig is the signature of the declaration ast, with an omitted return type
\* made Void and every type resolved with these type parameters in scope
sig_in_scope(ast, sig, class_typarams) ==
  /\ sig.ret_ty # NoTy
  /\ IF ast.ret_typ = NoRet THEN sig.ret_ty = raw("Void")
     ELSE in_scope(ast.ret_typ, sig.ret_ty, class_typarams, ast.typarams)
  /\ Len(sig.params) = Len(ast.params)
  /\ \A j \in 1..Len(ast.params) :
       in_scope(ast.params[j].typ, sig.params[j].ty, class_typarams,
                ast.typarams)

\* typ, a name of a class type parameter, is resolved to ty as the name of a
\* class seen from the body
as_class_name(typ, ty) ==
  LET b == _resolve_simple_typename(ProgramIndex, <<last_call.def.name>>,
                                    typ.names)
  IN  b.err = "none" /\ ty = nonmeta(b.resolved, <<>>)

\* C15 as stated: in the signature of every instance method, class method
\* and module requirement that the indexing pass creates, an omitted return
\* type is Void and every type is resolved with the type parameters of the
\* class and of the method in scope, a name of a class type parameter as the
\* class-bound reference with its index
C15_ClassTyparamsInScopeOfEveryMethod ==
  (IsIndexCall /\ last_call.err = "none") =>
    \A i \in 1..Len(last_call.def.defs) :
      is_method_def(i) =>
        sig_in_scope(last_call.def.defs[i].sig, registered_sig(i),
                     last_call.def.typarams)

\* C15 amended: this holds of instance methods and module requirements; the
\* signature of a class method is resolved with the type parameters of the
\* method only, and a name of a class type parameter in it is resolved as
\* the name of a class
C15_ClassTyparamsInScopeOfInstanceMethods ==
  (IsIndexCall /\ last_call.err = "none") =>
    \A i \in 1..Len(last_call.def.defs) :
      is_method_def(i) =>
        IF last_call.def.defs[i].kind # "cmethod"
        THEN sig_in_scope(last_call.def.defs[i].sig, registered_sig(i),
                          last_call.def.typarams)
        ELSE /\ sig_in_scope(last_call.def.defs[i].sig, registered_sig(i),
                             <<>>)
             /\ \A j \in 1..Len(last_call.def.defs[i].sig.params) :
                  ( /\ is_typaram_name(last_call.def.defs[i].sig.params[j].typ,
                                       last_call.def.typarams)
                    /\ ~is_typaram_name(last_call.def.defs[i].sig.params[j].typ,
                                        last_call.def.defs[i].sig.typarams) )
                  => as_class_name(last_call.def.defs[i].sig.params[j].typ,
                                   registered_sig(i).params[j].ty)

\* class P<A> with an instance method and a class method get<U>(x: A, y: U)
\* has been indexed
C15_Witness ==
  /\ last_call.op = "index_class"
  /\ last_call.err = "none"
  /\ last_call.def.name = "P"
  /\ sk_types[<<"P">>].method_sigs["get"].params[1].ty
       = typaram_ref("A", "Class", 0)
  /\ sk_types[<<"P">>].method_sigs["get"].params[2].ty
       = typaram_ref("U", "Method", 0)
  /\ sk_types[meta_name(<<"P">>)].method_sigs["get"].params[1].ty = raw("A")

----------------------------------------------------------------------------
(* Properties of patterns (SpecPattern)                                    *)

\* the class the extractor pattern of the last call names
pat_base == get_base_ty(sk_types, PatternConsts, pat_query.pat.names)

\* convert_match was called with an extractor pattern that names a class
ExtractorCalled ==
  /\ pat_result # NoResult
  /\ pat_query.pat.kind = "extractor"
  /\ pat_base.err = "none"

\* the pattern type: the class with the type arguments of the value's type
pat_type == infer_pat_ty(sk_types, pat_base.erasure, pat_query.value.ty)

\* the parameters of #initialize of the pattern type
initialize_params == lookup_method(sk_types, pat_type, "initialize").sig.params

\* the call of the getter of the i-th parameter on the value cast to the
\* pattern type
getter_call(i) ==
  Hir_method_call(initialize_params[i].ty,
                  Hir_bit_cast(pat_type, pat_query.value),
                  method_fullname(pat_type.name,
                                  without_at(initialize_params[i].name)),
                  <<>>)

\* the components of the sub-patterns from the i-th on, each compiled
\* against the getter of its parameter
RECURSIVE compiled_against_getters(_)
compiled_against_getters(i) ==
  IF i > Len(pat_query.pat.params) THEN <<>>
  ELSE convert_match(sk_types, PatternConsts, getter_call(i),
                     pat_query.pat.params[i]).components
       \o compiled_against_getters(i + 1)

\* a wrong number of sub-patterns is a ProgramError; with the right number
\* the components after the test of the class are those of the sub-patterns
count_checked ==
  IF Len(pat_query.pat.params) # Len(initialize_params)
  THEN pat_result.err = "ProgramError"
  ELSE pat_result.err = "none" =>
         SubSeq(pat_result.components, 2, Len(pat_result.components))
           = compiled_against_getters(1)

\* C16 as stated: an extractor pattern whose number of sub-patterns differs
\* from the number of parameters of #initialize of its class fails with a
\* ProgramError; with equal numbers sub-pattern i is compiled against the
\* getter of the i-th parameter
C16_WrongCountIsProgramError ==
  ExtractorCalled => count_checked

\* C16 amended: this holds of an extractor pattern whose pattern type
\* conforms to the type of the value matched
C16_WrongCountOfConformingPattern ==
  (ExtractorCalled /\ conforms(sk_types, pat_type, pat_query.value.ty))
    => count_checked

\* A(x) matched against a value of type A, whose #initialize takes two
\* parameters
C16_Witness ==
  /\ ExtractorCalled
  /\ conforms(sk_types, pat_type, pat_query.value.ty)
  /\ Len(pat_query.pat.params) = 1
  /\ Len(initialize_params) = 2
  /\ pat_result.err = "ProgramError"

\* C17: an extractor pattern whose pattern type does not conform to the type
\* of the value matched fails with a TypeError and has no components,
\* whatever the number of its sub-patterns
C17_NonConformingPatternIsTypeError ==
  (ExtractorCalled /\ ~conforms(sk_types, pat_type, pat_query.value.ty))
    => pat_result.err = "TypeError" /\ pat_result.components = <<>>

\* C(y, x) matched against a value of type A: the type does not conform and
\* the number of sub-patterns is wrong as well
C17_Witness ==
  /\ ExtractorCalled
  /\ ~conforms(sk_types, pat_type, pat_query.value.ty)
  /\ Len(pat_query.pat.params) # Len(initialize_params)
  /\ pat_result.err = "TypeError"

----------------------------------------------------------------------------
(* Properties of the type checks (SpecCheck)                               *)

ReturnChecked == tc_query.op = "check_return_value" /\ tc_result # NoResult

\* the body type conforms to the return type or, for a return type that is
\* a reference to a type parameter of the method, is equal to the reference
\* or conforms to its lower bound
return_value_accepted ==
  IF tc_query.sig.ret_ty.tag = "para" /\ tc_query.sig.ret_ty.kind = "Method"
  THEN \/ tc_query.ty = tc_query.sig.ret_ty
       \/ conforms(sk_types, tc_query.ty, lower_bound(tc_query.sig.ret_ty))
  ELSE conforms(sk_types, tc_query.ty, tc_query.sig.ret_ty)

\* C18 as stated: check_return_value accepts the type of the body exactly
\* when it conforms to the return type of the signature (for a reference to
\* a type parameter of the method: when it is equal to the reference or
\* conforms to its lower bound), and returns a TypeError in every other case
C18_AcceptsExactlyConformingTypes ==
  ReturnChecked =>
    /\ tc_result.err \in {"none", "TypeError"}
    /\ tc_result.err = "none" <=> return_value_accepted

\* C18 amended: this holds of a return type other than Void; with the
\* return type Void every type of the body is accepted
C18_AcceptsConformingTypesOrVoidReturn ==
  ReturnChecked =>
    /\ tc_result.err \in {"none", "TypeError"}
    /\ tc_result.err = "none"
         <=> (is_void_type(tc_query.sig.ret_ty) \/ return_value_accepted)

\* a body of type B is accepted for the return type A, its superclass
C18_Witness ==
  /\ ReturnChecked
  /\ tc_query.sig.ret_ty = raw("A")
  /\ tc_query.ty = raw("B")
  /\ tc_result.err = "none"

ArgsChecked == tc_query.op = "check_method_args" /\ tc_result # NoResult

\* the type the i-th argument is checked against
expected_arg_ty(i) ==
  IF tc_query.inf.given THEN tc_query.inf.solved_method_arg_tys[i]
  ELSE tc_query.sig.params[i].ty

\* C19: check_method_args accepts a call exactly when there are as many
\* arguments as parameters and the type of every argument conforms to the
\* declared type of its parameter or, when there is a result of method-call
\* inference, to the type inferred for its position; otherwise it returns a
\* TypeError, and with a wrong number of arguments no argument type is
\* examined
C19_ArityThenArgumentTypes ==
  ArgsChecked =>
    /\ tc_result.err \in {"none", "TypeError"}
    /\ tc_result.err = "none"
         <=> /\ Len(tc_query.arg_hirs) = Len(tc_query.sig.params)
             /\ \A i \in 1..Len(tc_query.sig.params) :
                  conforms(sk_types, tc_query.arg_hirs[i].ty,
                           expected_arg_ty(i))
    /\ Len(tc_query.arg_hirs) # Len(tc_query.sig.params)
         => tc_result.examined = 0

\* an argument of type Object for a parameter declared as the type parameter
\* T is accepted because T was inferred to be Object
C19_Witness ==
  /\ ArgsChecked
  /\ Len(tc_query.sig.params) = 1
  /\ Len(tc_query.arg_hirs) = 1
  /\ tc_query.sig.params[1].ty = typaram_ref("T", "Method", 0)
  /\ tc_query.arg_hirs[1].ty = raw("Object")
  /\ tc_query.inf = MethodCallInf3(<<raw("Object")>>)
  /\ tc_result.err = "none"

----------------------------------------------------------------------------
(* The order of the constants (SpecHir)                                    *)

\* the full names of the constants that the definitions from the i-th on
\* declare, nested class bodies included, in the order of the source
RECURSIVE declared_consts(_, _, _)
declared_consts(ns, defs, i) ==
  IF i > Len(defs) THEN <<>>
  ELSE (IF defs[i].kind = "const" THEN <<ns \o <<defs[i].name>>>>
        ELSE IF defs[i].kind = "class"
        THEN declared_consts(ns \o <<defs[i].name>>, defs[i].defs, 1)
        ELSE <<>>)
       \o declared_consts(ns, defs, i + 1)

SourceConsts == declared_consts(<<>>, HirProgram, 1)

source_position(fullname) ==
  CHOOSE k \in 1..Len(SourceConsts) : SourceConsts[k] = fullname

\* C20: of two constant definitions of the source file, the one declared
\* earlier is earlier in const_inits
C20_ConstInitsInSourceOrder ==
  \A a, b \in 1..Len(const_inits) :
    a < b => source_position(const_inits[a]) < source_position(const_inits[b])

----------------------------------------------------------------------------
(* Source locations (SpecSpan)                                             *)

SpanCalled == span_result # NoResult

\* the call was given what violates the invariant of spans: new a begin after
\* its end, merge the spans of two files
invariant_violated ==
  \/ span_query.op = "new" /\ span_query.begin.pos > span_query.end.pos
  \/ span_query.op = "merge" /\ span_query.begin.filepath # span_query.end.filepath

\* C21: when new is given begin.pos > end.pos, or merge the spans of two
\* different files, the call does not hand a span back for the compilation to
\* go on with: the compilation fails
C21_InvalidSpanFailsCompilation ==
  (SpanCalled /\ invariant_violated) => span_result.outcome # "returned"

is_internal_sentinel(span) ==
  /\ span.filepath = "<<internal>>"
  /\ span.begin = [line |-> 0, col |-> 0, pos |-> 0]
  /\ span.end = [line |-> 0, col |-> 0, pos |-> 0]

\* C26: every span new or merge returns has begin.pos <= end.pos; merge(a, b)
\* of two spans of one file with a.begin.pos <= b.end.pos is the span of that
\* file from a.begin to b.end, and in every other case the <<internal>>
\* sentinel, whose positions are all 0
C26_ReturnedSpansAreOrdered ==
  SpanCalled =>
    /\ span_result.span.begin.pos <= span_result.span.end.pos
    /\ span_query.op = "merge" =>
         IF /\ span_query.begin.filepath = span_query.end.filepath
            /\ span_query.begin.begin.pos <= span_query.end.end.pos
         THEN /\ span_result.span.filepath = span_query.begin.filepath
              /\ span_result.span.begin = span_query.begin.begin
              /\ span_result.span.end = span_query.end.end
         ELSE is_internal_sentinel(span_result.span)

\* merge of two spans of a.sk, the second of which begins before the first
\* ends, returned the span from the begin of the first to the end of the second
C26_Witness ==
  /\ SpanCalled
  /\ span_query.op = "merge"
  /\ span_query.begin.filepath = "a.sk"
  /\ span_query.end.filepath = "a.sk"
  /\ span_query.begin.begin.pos = 1
  /\ span_query.begin.end.pos = 3
  /\ span_query.end.begin.pos = 2
  /\ span_query.end.end.pos = 3
  /\ span_result.span = LocationSpan("a.sk", Location(1, 1, 1), Location(2, 1, 3))

----------------------------------------------------------------------------
(* The components of an extractor pattern (SpecPattern)                    *)

\* Object#==(constant C, value)
identity_comparison(C, value) ==
  [ty |-> raw("Bool"),
   node |-> [op |-> "method_call",
             receiver |-> Hir_const_ref(pat_type, C),
             method |-> method_fullname(<<"Object">>, "=="),
             args |-> <<value>>]]

\* value.class.erasure_class == C
class_comparison(C, value) ==
  LET class_of == Hir_method_call(raw("Class"), value,
                                  method_fullname(<<"Object">>, "class"), <<>>)
      erasure_class == Hir_method_call(raw("Class"), class_of,
                                       method_fullname(<<"Class">>,
                                                       "erasure_class"), <<>>)
  IN  Hir_method_call(raw("Bool"), erasure_class,
                      method_fullname(<<"Class">>, "=="),
                      <<class_expr(nonmeta(C, <<>>))>>)

\* what the i-th sub-pattern contributes: nothing for `_`, one Bind of the
\* variable to the i-th property for a variable, its own components otherwise
contribution(i) ==
  LET sub == pat_query.pat.params[i]
  IN  IF sub.kind = "variable" /\ sub.names[1] = "_" THEN <<>>
      ELSE IF sub.kind = "variable" THEN <<Bind(sub.names[1], getter_call(i))>>
      ELSE convert_match(sk_types, PatternConsts, getter_call(i), sub).components

RECURSIVE contributions_from(_)
contributions_from(i) ==
  IF i > Len(pat_query.pat.params) THEN <<>>
  ELSE contribution(i) \o contributions_from(i + 1)

----------------------------------------------------------------------------
(* The result type of a match expression (SpecMatch)                       *)

\* convert_match_expr was given a scrutinee and at least one user clause,
\* all of which convert
ClausesConverted ==
  /\ match_result # NoMatch
  /\ ~match_input.cond.err
  /\ match_input.clauses # <<>>
  /\ \A i \in 1..Len(match_input.clauses) : ~match_input.clauses[i].err

body_ty(i) == match_input.clauses[i].ty
non_never == {i \in 1..Len(match_input.clauses) : body_ty(i) # raw("Never")}

\* the body of the i-th clause as it was converted
converted_body(i) == [ty |-> body_ty(i), node |-> "exprs", from |-> body_ty(i)]

\* a is ty or one of its superclasses
is_ancestor(ty, a) ==
  \E k \in 1..Len(ancestor_types(MatchDict, ty, Cardinality(DOMAIN MatchDict))) :
    ancestor_types(MatchDict, ty, Cardinality(DOMAIN MatchDict))[k] = a

common_ancestors(is) == {a \in BodyTypes : \A i \in is : is_ancestor(body_ty(i), a)}

\* the body of each user clause of the lowered match: that of a clause in
\* changed is of the result type by the operation named, every other body is
\* as it was converted
bodies_are(changed, operation) ==
  /\ Len(user_clauses) = Len(match_input.clauses)
  /\ \A i \in 1..Len(user_clauses) :
       user_clauses[i].body_hir =
         IF i \in changed
         THEN [ty |-> match_result.ty, node |-> operation, from |-> body_ty(i)]
         ELSE converted_body(i)

\* C23: the result type of a match expression with user clauses is Never when
\* every body is of type Never; otherwise Void when a body that is not Never
\* is Void, every other body that is not Never being void-ified; otherwise the
\* nearest common ancestor of the types of the bodies that are not Never,
\* every body of another type being bitcast to it, and a TypeError when two
\* of them have no common ancestor.  Bodies of type Never are left unchanged.
C23_ResultTypeOfMatch ==
  ClausesConverted =>
    IF non_never = {}
    THEN /\ match_result.err = "none"
         /\ match_result.ty = raw("Never")
         /\ bodies_are({}, "-")
    ELSE IF \E i \in non_never : body_ty(i) = raw("Void")
    THEN /\ match_result.err = "none"
         /\ match_result.ty = raw("Void")
         /\ bodies_are({i \in non_never : body_ty(i) # raw("Void")}, "voidified")
    ELSE IF \E i, j \in non_never : common_ancestors({i, j}) = {}
    THEN match_result.err = "TypeError"
    ELSE /\ match_result.err = "none"
         /\ match_result.ty \in common_ancestors(non_never)
         /\ \A a \in common_ancestors(non_never) : is_ancestor(match_result.ty, a)
         /\ bodies_are({i \in non_never : body_ty(i) # match_result.ty}, "bitcast")

\* bodies of the types A, B and Never: the result type is A, the body of type
\* B is bitcast to A and the body of type Never is as it was
C23_Witness ==
  /\ ClausesConverted
  /\ Len(match_input.clauses) = 3
  /\ body_ty(1) = raw("A") /\ body_ty(2) = raw("B") /\ body_ty(3) = raw("Never")
  /\ Lowered
  /\ match_result.ty = raw("A")
  /\ user_clauses[2].body_hir.node = "bitcast"
  /\ user_clauses[3].body_hir = converted_body(3)

----------------------------------------------------------------------------
(* The scrutinee of a match expression (SpecScrutinee)                     *)

\* the leaves of an expression of the HIR
RECURSIVE leaves(_)
leaves(expr) ==
  IF expr.node.op = "bit_cast" THEN leaves(expr.node.expr)
  ELSE IF expr.node.op = "method_call"
  THEN leaves(expr.node.receiver)
         \cup UNION {leaves(expr.node.args[i]) : i \in 1..Len(expr.node.args)}
  ELSE {expr.node}

\* the expression reads the local variable of that name and no other, and
\* does not hold the scrutinee
reads_only(expr, name) ==
  /\ [op |-> "lvar_ref", name |-> name] \in leaves(expr)
  /\ \A leaf \in leaves(expr) :
       /\ leaf.op # "scrutinee"
       /\ leaf.op = "lvar_ref" => leaf.name = name

\* C24: every name generate_lvar_name returned differs from those it returned
\* before and the counter is the number of names returned; a lowered match
\* holds one assignment of the scrutinee, to the temporary that was the first
\* name taken by the call, and every Test and Bind of every clause reads that
\* temporary and not the scrutinee
C24_ScrutineeEvaluatedOnce ==
  /\ gensym_ct = Len(lvar_names)
  /\ \A i, j \in 1..Len(lvar_names) : i < j => lvar_names[i] # lvar_names[j]
  /\ Lowered =>
       /\ match_result.cond_assign.rhs = [ty |-> match_input.cond.ty,
                                          node |-> [op |-> "scrutinee"]]
       /\ match_result.cond_assign.name =
            lvar_names[Len(lvar_names) - Len(match_result.names) + 1]
       /\ match_result.lvars = <<[name |-> match_result.cond_assign.name,
                                  ty |-> match_input.cond.ty]>>
       /\ \A c \in 1..Len(match_result.clauses) :
            \A k \in 1..Len(match_result.clauses[c].components) :
              reads_only(match_result.clauses[c].components[k].expr,
                         match_result.cond_assign.name)

\* the second match expression of a compilation, lowered after a first whose
\* body holds a match expression of its own: its temporary is the third name
\* and its clause E::Some(y) tests and binds through it
C24_Witness ==
  /\ Lowered
  /\ Len(lvar_names) >= 3
  /\ match_result.cond_assign.name = "expr@2_"
  /\ lvar_names[3] = "expr@2_"
  /\ Len(match_result.clauses) = 2
  /\ Len(match_result.clauses[1].components) = 2
  /\ match_result.clauses[1].components[2].kind = "Bind"
  /\ match_result.clauses[1].components[2].name = "y"

----------------------------------------------------------------------------
(* The order of the constant initializers (SpecCodegen)                    *)

\* main has run to its end
MainReturned ==
  /\ Len(call_stack) = 1
  /\ call_stack[1].pc > Len(init_fns[call_stack[1].func])

\* the entries of the list that are none of the three basic classes, in the
\* order of the list
RECURSIVE others(_)
others(q) ==
  IF q = <<>> THEN <<>>
  ELSE (IF Head(q) \in {<<"Metaclass">>, <<"Class">>, <<"Shiika", "Internal", "Ptr">>}
        THEN <<>> ELSE <<Head(q)>>) \o others(Tail(q))

initialization_order ==
  << <<"Metaclass">>, <<"Class">>, <<"Shiika", "Internal", "Ptr">> >>
    \o others(gen_query.builtin) \o others(gen_query.main)

\* C25: the initializers run are, at every moment, the beginning of the list
\* that holds Metaclass, Class and Shiika::Internal::Ptr first and then every
\* other entry of the const_inits of the builtin and of the main package in
\* the order of the lists, and the whole of it when main has returned: the
\* three basic classes are initialized first and never a second time
C25_BasicClassesFirstThenListOrder ==
  /\ Len(init_calls) <= Len(initialization_order)
  /\ init_calls = SubSeq(initialization_order, 1, Len(init_calls))
  /\ MainReturned => init_calls = initialization_order

\* the builtin package lists Object before the basic classes and the main
\* package holds X and Class: main has returned
C25_Witness ==
  /\ MainReturned
  /\ gen_query.builtin[1] = <<"Object">>
  /\ gen_query.main = << <<"X">>, <<"Class">> >>
  /\ init_calls = << <<"Metaclass">>, <<"Class">>, <<"Shiika", "Internal", "Ptr">>,
                     <<"Object">>, <<"X">> >>

----------------------------------------------------------------------------
(* The two checks of a returned value (SpecCheck)                          *)

ReturnArgChecked ==
  tc_query.op = "check_return_arg_type" /\ tc_result # NoResult

\* what check_return_value answers for the signature and the type that
\* check_return_arg_type was called with
as_last_expression == check_return_value(sk_types, tc_query.sig, tc_query.ty)

\* C27 as stated: check_return_arg_type accepts the type of the argument of
\* `return` exactly when check_return_value accepts the same type as the type
\* of the last expression of the body, whatever the signature
C27_ReturnChecksAgree ==
  ReturnArgChecked =>
    (tc_result.err = "none" <=> as_last_expression.err = "none")

\* C27 amended: the two checks agree for every return type other than Void;
\* for the return type Void check_return_value accepts every type and
\* check_return_arg_type the types that conform to Void
C27_ReturnChecksAgreeUnlessVoid ==
  ReturnArgChecked =>
    IF tc_query.sig.ret_ty = raw("Void")
    THEN /\ as_last_expression.err = "none"
         /\ tc_result.err = "none"
              <=> conforms(sk_types, tc_query.ty, raw("Void"))
    ELSE tc_result.err = "none" <=> as_last_expression.err = "none"

\* `return e` with e of the type B in a method that returns A is accepted, as
\* a body that ends in e is
C27_Witness ==
  /\ ReturnArgChecked
  /\ tc_query.sig.ret_ty = raw("A")
  /\ tc_query.ty = raw("B")
  /\ tc_result.err = "none"
  /\ as_last_expression.err = "none"

----------------------------------------------------------------------------
(* .new and #initialize after re-openings (SpecIndex)                      *)

\* the classes of the dictionary whose metaclass has a .new
classes_with_new ==
  {k \in DOMAIN sk_types :
     /\ ~is_meta_key(k)
     /\ sk_types[k].kind = "class"
     /\ meta_name(k) \in DOMAIN sk_types
     /\ "new" \in DOMAIN sk_types[meta_name(k)].method_sigs}

\* the #initialize that method lookup finds for the class
found_initialize(k) == lookup_method(sk_types, nonmeta(k, <<>>), "initialize")

\* C28: after any sequence of declarations, re-openings included, the
\* parameter list of Meta:X.new is the parameter list of the #initialize that
\* method lookup finds for X
C28_NewTakesParamsOfFoundInitialize ==
  \A k \in classes_with_new :
    found_initialize(k).found =>
      sk_types[meta_name(k)].method_sigs["new"].params
        = found_initialize(k).sig.params

\* an enum was indexed without an error
EnumIndexed == last_call.op = "index_enum" /\ last_call.err = "none"

\* _register_enum_case_class: the body of #initialize, one assignment of
\* argument idx to the instance variable (param.name, idx) per parameter
enum_case_initialize_body(signature) ==
  [i \in 1..Len(signature.params) |->
     [op |-> "ivar_assign", name |-> signature.params[i].name, idx |-> i - 1,
      rhs |-> [op |-> "arg_ref", ty |-> signature.params[i].ty, idx |-> i - 1]]]

\* what the dictionary d holds for the case of the enum def
param_is_slot(d, def, case, i) ==
  LET fullname == <<def.name, case.name>>
      p == case.params[i]
      ivars == d[fullname].ivars
      new == d[meta_name(fullname)].method_sigs["new"]
      initialize == d[fullname].method_sigs["initialize"]
      body == enum_case_initialize_body(initialize)
  IN  /\ p.name \in DOMAIN ivars
      /\ ivars[p.name].idx = i - 1
      /\ ivars[p.name].readonly
      /\ new.params[i] = [name |-> p.name, ty |-> ivars[p.name].ty]
      /\ initialize.params[i] = new.params[i]
      /\ body[i].idx = i - 1 /\ body[i].rhs.idx = i - 1
      /\ body[i].name = p.name
      /\ p.name \in DOMAIN d[fullname].method_sigs
      /\ d[fullname].method_sigs[p.name].params = <<>>
      /\ d[fullname].method_sigs[p.name].ret_ty = initialize.params[i].ty

params_are_slots(d, def, case) ==
  LET fullname == <<def.name, case.name>>
      k == Len(case.params)
  IN  /\ Cardinality(DOMAIN d[fullname].ivars) = k
      /\ {d[fullname].ivars[n].idx : n \in DOMAIN d[fullname].ivars} = 0..(k - 1)
      /\ Len(d[meta_name(fullname)].method_sigs["new"].params) = k
      /\ Len(d[fullname].method_sigs["initialize"].params) = k
      /\ \A i \in 1..k : param_is_slot(d, def, case, i)

\* C29: after an enum is indexed, every case with parameters p0..p(k-1) has
\* k readonly instance variables whose idx values are 0..k-1 in parameter
\* order, .new and #initialize take those k parameters in that order with
\* the types of the slots, #initialize stores argument i into slot i, and
\* the getter named pi takes no argument and returns the type of slot i.
C29_EnumCaseParamsAreSlots ==
  EnumIndexed =>
    \A i \in 1..Len(last_call.def.cases) :
      params_are_slots(sk_types, last_call.def, last_call.def.cases[i])

\* the same for the cases whose parameter names are pairwise distinct
distinct_param_names(case) ==
  \A i, j \in 1..Len(case.params) :
    case.params[i].name = case.params[j].name => i = j
C29_DistinctParamsAreSlots ==
  EnumIndexed =>
    \A i \in 1..Len(last_call.def.cases) :
      distinct_param_names(last_call.def.cases[i]) =>
        params_are_slots(sk_types, last_call.def, last_call.def.cases[i])

\* the i-th name of the supers list of the last call, looked up in the name
\* index and resolved with its type arguments
super_base(i) ==
  _resolve_simple_typename(ProgramIndex, <<>>, last_call.def.supers[i].names)
super_ty(i) ==
  _resolve_typename(ProgramIndex, <<>>, last_call.def.typarams, <<>>,
                    last_call.def.supers[i])
known_to_index(i) == super_base(i).err = "none"
right_arity(i) ==
  Len(last_call.def.supers[i].args) = Len(ProgramIndex[super_base(i).resolved])
registered_before(i) ==
  known_to_index(i) /\ super_base(i).resolved \in DOMAIN last_call.before
declared_later(i) ==
  known_to_index(i) /\ super_base(i).resolved \notin DOMAIN last_call.before

\* every class of the dictionary d has its superclass in the dictionary e
superclasses_in(d, e) ==
  \A k \in DOMAIN d :
    (d[k].kind = "class" /\ d[k].superclass # NoTy)
      => erasure_fullname(d[k].superclass) \in DOMAIN e

\* the class of the last call was registered by it, with a superclass the
\* dictionary held before the call
points_to_earlier ==
  LET fullname == <<last_call.def.name>>
  IN  (fullname \in DOMAIN sk_types /\ fullname \notin DOMAIN last_call.before)
        => erasure_fullname(sk_types[fullname].superclass)
             \in DOMAIN last_call.before

resolves_args(i) ==
  \A a \in 1..Len(last_call.def.supers[i].args) :
    _resolve_typename(ProgramIndex, <<>>, last_call.def.typarams, <<>>,
                      last_call.def.supers[i].args[a]).err = "none"

\* the names of the supers list before the i-th are accepted by
\* _resolve_supers
accepted_upto(i) ==
  _resolve_supers(ProgramIndex, last_call.before, <<>>, last_call.def.typarams,
                  SubSeq(last_call.def.supers, 1, i - 1)).err = "none"

====
